---- MODULE Spec2Model ----
(***************************************************************************)
(* State-machine model of the webupload file ingestion pipeline:           *)
(* admission (initiateFileUpload), completion (completeFileUpload), the    *)
(* BullMQ processing queue and its workers (processFile), downloads,       *)
(* share tokens and the administrative override.                           *)
(*                                                                         *)
(* Every "await" of a handler whose interleaving matters is one step of    *)
(* the model; a handler whose database steps are not interleaved with      *)
(* anything it depends on is one action.                                   *)
(***************************************************************************)
EXTENDS Integers, FiniteSets, Sequences, TLC

\* ------------------------------------------------------------------ bounds
MaxFiles == 2      \* File rows ever inserted (the pipeline specification)
MaxJobs == 2       \* jobs ever added to the queue
FewFiles == 1      \* File rows ever inserted (the API specifications)
MaxShares == 1     \* share rows ever inserted
MaxTime == 2       \* the clock runs 1 .. MaxTime

\* ------------------------------------------------------- program constants
maxFileSize == 104857600   \* FILE_UPLOAD_MAX_SIZE default
attempts == 3      \* defaultJobOptions.attempts and the add() option
concurrency == 2   \* Worker option: jobs processed at a time
removeOnFail == 100   \* defaultJobOptions.removeOnFail: failed jobs kept


\* --------------------------------------------------------------- data sets
NULL == "NULL"
FileIds == 1 .. MaxFiles
JobIds == 1 .. MaxJobs
ShareIds == 1 .. MaxShares
Tokens == 1 .. (MaxShares + 1)          \* one token is never issued
WorkerIds == 1 .. concurrency
ReqIds == {1, 2}                       \* concurrent API requests of one kind
Users == {"alice", "bob", "root"}      \* root is the administrator
Statuses == {"pending", "scanning", "clean", "quarantined", "rejected"}
Terminal == {"clean", "quarantined", "rejected"}
NoReason == <<>>

\* users table: role and quotas of each user (init.sql defaults scaled down)
users ==
  [u \in Users |->
     [role |-> IF u = "root" THEN "admin" ELSE "user",
      storage_quota_bytes |-> 1000,
      files_quota |-> IF u = "bob" THEN 1 ELSE 2]]

\* Blob contents a client may upload.  A content stands for a byte string;
\* sha256, magic-byte detection and the scanner verdict are functions of it.
Contents == {"pngBytes", "eicarBytes"}

\* Further contents for the scanner: an executable, an infected executable
\* on which the scanner reports two signatures, an infected image, an SVG
\* document and a plain text (both without magic bytes).
ScanContents ==
  Contents \cup {"exeBytes", "eicarExeBytes", "eicarPngBytes", "svgBytes",
                 "txtBytes"}

\* createHash('sha256').update(buf).digest('hex'): injective on Contents
sha256Of(buf) ==
  CASE buf = "pngBytes" -> "sha-png"
    [] buf = "exeBytes" -> "sha-exe"
    [] buf = "eicarBytes" -> "sha-eicar"
    [] buf = "eicarExeBytes" -> "sha-eicar-exe"
    [] buf = "eicarPngBytes" -> "sha-eicar-png"
    [] buf = "svgBytes" -> "sha-svg"
    [] buf = "txtBytes" -> "sha-txt"

\* fileTypeFromBuffer(buf)?.mime : the magic-byte result, NULL when undefined
fileTypeFromBuffer(buf) ==
  CASE buf = "pngBytes" -> "image/png"
    [] buf = "exeBytes" -> "application/x-msdownload"
    [] buf = "eicarBytes" -> NULL
    [] buf = "eicarExeBytes" -> "application/x-msdownload"
    [] buf = "eicarPngBytes" -> "image/png"
    [] buf = "svgBytes" -> NULL
    [] buf = "txtBytes" -> NULL

\* clamscan.scanBuffer(buf): {isInfected, viruses}
scanBuffer(buf) ==
  CASE buf \in {"eicarBytes", "eicarPngBytes"} ->
         [isInfected |-> TRUE, viruses |-> <<"Eicar-Test-Signature">>]
    [] buf = "eicarExeBytes" ->
         [isInfected |-> TRUE,
          viruses |-> <<"Eicar-Test-Signature", "Win.Test.EICAR_HDB-1">>]
    [] OTHER -> [isInfected |-> FALSE, viruses |-> <<>>]

dangerousFileTypesNoSvg ==
  {"application/x-msdownload", "application/x-executable",
   "application/x-dosexec", "application/x-msdos-program",
   "application/x-msdos-windows", "application/bat", "application/x-bat",
   "application/javascript", "text/javascript", "application/html",
   "text/html", "application/wasm", "application/jar",
   "application/java-archive"}

dangerousFileTypes ==
  {"application/x-msdownload", "application/x-executable",
   "application/x-dosexec", "application/x-msdos-program",
   "application/x-msdos-windows", "application/bat", "application/x-bat",
   "application/javascript", "text/javascript", "application/html",
   "text/html", "application/wasm", "application/jar",
   "application/java-archive", "image/svg+xml"}

\* detectedMime.startsWith('image/')
isImageMime(m) == Len(m) >= 6 /\ SubSeq(m, 1, 6) = "image/"

\* ---------------------------------------------------------------- state
VARIABLES
  files,        \* files table: file id -> row (DOMAIN = ids of existing rows)
  fileSeq,      \* number of File rows ever inserted (fresh randomUUID)
  blob,         \* object store: file id (storage key) -> content or NULL
  objectType,   \* object store: the Content-Type signed for each key, or NULL
  thumbnails,   \* object store: file ids with a stored thumbnails/<key>
  rowLock,      \* files row lock held by an open transaction: id -> req or 0
  jobs,         \* queue: job id -> [fileId, attemptsMade, state]
  jobSeq,       \* number of jobs ever added
  workers,      \* worker slots: [pc, job, name, buf, scanResult, err]
  initiate,     \* initiateFileUpload calls in progress
  complete,     \* completeFileUpload calls in progress
  shares,       \* file_shares table: share id -> row
  resolve,      \* getFileByShareToken calls in progress
  now,          \* NOW()
  env,          \* process.env.ENABLE_FILE_DEDUPLICATION when the process started
  mimeDb,       \* what mime.lookup answers for each file name in use
  sharing,      \* createFileShare calls in progress
  shareSeq,     \* number of share rows ever inserted (fresh token)
  deleting,     \* deleteFile calls in progress
  allowing,     \* adminFileActionHandler calls (action 'allow') in progress
  watch,        \* the operations whose returns are observed
  ret           \* the last observed call that returned, and its result

vars == <<files, fileSeq, blob, objectType, thumbnails, rowLock, jobs, jobSeq, workers,
          initiate, complete, shares, resolve, now, env, mimeDb, sharing,
          shareSeq, deleting, allowing, watch, ret>>

IdleWorker ==
  [pc |-> "idle", job |-> 0, name |-> NULL, buf |-> NULL, scanResult |-> NULL,
   err |-> NULL]
IdleInitiate ==
  [pc |-> "idle", userId |-> NULL, fileName |-> NULL, fileSize |-> 0,
   contentType |-> NULL]
IdleComplete == [pc |-> "idle", fileId |-> 0, userId |-> NULL, locked |-> FALSE]
IdleResolve == [pc |-> "idle", token |-> 0, share |-> 0]
IdleSharing ==
  [pc |-> "idle", fileId |-> 0, userId |-> NULL, expiresInMinutes |-> 0,
   oneTimeUse |-> FALSE, expiresAt |-> 0]
IdleDeleting == [pc |-> "idle", fileId |-> 0, userId |-> NULL]
IdleAllowing == [pc |-> "idle", fileId |-> 0]

\* what the environment may hold for ENABLE_FILE_DEDUPLICATION: nothing (the
\* default of the repository) or 'true'
EnvValues == {NULL, "true"}

\* config.fileUpload.enableFileDeduplication:
\* process.env.ENABLE_FILE_DEDUPLICATION === 'true'
enableFileDeduplication == env = "true"

\* mime.lookup(path) of mime-types answers a type, or false (NULL).  The
\* package is a dependency of the program and its table is no part of the
\* source: what it answers for the names in use is held in mimeDb, which no
\* step changes.
LookupAnswers ==
  {NULL, "text/plain", "image/webp",
   "application/x-msdownload", "application/x-executable",
   "application/x-dosexec", "application/x-msdos-program",
   "application/x-msdos-windows", "application/bat", "application/x-bat",
   "application/javascript", "text/javascript", "application/html",
   "text/html", "application/wasm", "application/jar",
   "application/java-archive", "image/svg+xml"}

\* mime.lookup(file.original_name)
mimeLookup(name) == mimeDb[name]

\* the uploads of the model are named a.txt where nothing else is said, and
\* for that name the lookup answers text/plain
TxtTable == [name \in {"a.txt"} |-> "text/plain"]

\* the tables that give one of the answers for each of the names, beside
\* a.txt
LookupTables(names, answers) ==
  {[name \in names \cup {"a.txt"} |->
      IF name = "a.txt" THEN "text/plain" ELSE t[name]] :
     t \in [names \ {"a.txt"} -> answers]}

\* no createFileShare, deleteFile or adminFileActionHandler call is under way
\* and no share row was ever inserted
InitCalls ==
  /\ sharing = [r \in ReqIds |-> IdleSharing]
  /\ shareSeq = 0
  /\ deleting = [r \in ReqIds |-> IdleDeleting]
  /\ allowing = [r \in ReqIds |-> IdleAllowing]
NoRet == [op |-> "none", id |-> 0, user |-> NULL, result |-> NULL,
          audit |-> "none", was |-> NULL, is |-> NULL]

\* the state after construction: empty tables, empty queue, idle workers
InitWatching(ops) ==
  /\ watch = ops
  /\ env \in EnvValues
  /\ mimeDb = TxtTable
  /\ files = <<>>
  /\ fileSeq = 0
  /\ blob = [f \in FileIds |-> NULL]
  /\ objectType = [f \in FileIds |-> NULL]
  /\ thumbnails = {}
  /\ rowLock = [f \in FileIds |-> 0]
  /\ jobs = <<>>
  /\ jobSeq = 0
  /\ workers = [w \in WorkerIds |-> IdleWorker]
  /\ initiate = [r \in ReqIds |-> IdleInitiate]
  /\ complete = [r \in ReqIds |-> IdleComplete]
  /\ shares = <<>>
  /\ InitCalls
  /\ resolve = [r \in ReqIds |-> IdleResolve]
  /\ now = 1
  /\ ret = NoRet

Init == InitWatching({})

statusOf(f) == IF f \in DOMAIN files THEN files[f].status ELSE "absent"

\* what a caller can see of file f: its status, the jobs queued for it and
\* the share rows that refer to it
fileView(f) ==
  [status |-> statusOf(f),
   jobs |-> Cardinality({j \in DOMAIN jobs : jobs[j].fileId = f}),
   shares |-> Cardinality({t \in DOMAIN shares : shares[t].file_id = f})]

\* what a caller can see of share token t
shareView(t) ==
  IF t \notin DOMAIN shares THEN [state |-> "unknown", file |-> "absent"]
  ELSE [state |-> IF ~(now < shares[t].expires_at) THEN "expired"
                  ELSE IF shares[t].one_time_use /\ shares[t].used_at # 0
                    THEN "consumed"
                  ELSE "valid",
        file |-> statusOf(shares[t].file_id)]

\* what an initiate call can change: the tables as a whole
tableView == [files |-> files, fileSeq |-> fileSeq, jobs |-> jobs, blob |-> blob]

viewOf(op, id) ==
  IF op = "resolve" THEN shareView(id)
  ELSE IF op = "initiate" THEN tableView
  ELSE fileView(id)

\* a call returns: if the operation is observed, ret records the call, its
\* result, and the view of its target before (was) and after (is) the step
\* that returns.  ret and watch are observation only: no operation reads
\* them.  Return is the last conjunct of an action.  For initiate, which has
\* no target yet, id is the declared size.  audit is what became of the audit
\* insert of the call: "written", "failed", or "none" when it made none.
ReturnAudited(op, id, user, result, audit) ==
  /\ \E i \in {id} :
       ret' = IF op \in watch
                THEN [op |-> op, id |-> i, user |-> user, result |-> result,
                      audit |-> audit,
                      was |-> viewOf(op, i), is |-> viewOf(op, i)']
                ELSE ret
  /\ UNCHANGED watch

Return(op, id, user, result) == ReturnAudited(op, id, user, result, "none")

\* ------------------------------------------------------- auditLog
\* the INSERT INTO audit_logs succeeds, or the database refuses it
AuditOutcomes == {"written", "failed"}

auditLogRethrows(outcome) ==
  IF outcome = "failed" THEN "thrown" ELSE "returned"

\* auditLog: try { INSERT } catch { logger.error }: the call returns whatever
\* became of the insert
auditLog(outcome) == "returned"

\* what a caller returns after `await auditLog(...)`: its normal result, or
\* the audit error if auditLog threw
afterAudit(outcome, result) ==
  IF auditLog(outcome) = "thrown" THEN "AuditFailed" ELSE result

\* ------------------------------------------------------- initiateFileUpload
\* rows of owner u that count against the quotas: status != 'rejected'
quotaRows(u) ==
  {f \in DOMAIN files : files[f].owner_id = u /\ files[f].status # "rejected"}

RECURSIVE sumSizes(_)
sumSizes(S) ==
  IF S = {} THEN 0
  ELSE LET f == CHOOSE x \in S : TRUE
       IN files[f].size_bytes + sumSizes(S \ {f})

\* COALESCE(SUM(size_bytes), 0) ... WHERE owner_id = $1 AND status != 'rejected'
usedStorage(u) == sumSizes(quotaRows(u))

\* COUNT(*) ... WHERE owner_id = $1 AND status != 'rejected'
fileCount(u) == Cardinality(quotaRows(u))

sizeTooLarge(fileSize) == fileSize > maxFileSize

storageQuotaAtLimit(u, fileSize) ==
  usedStorage(u) + fileSize >= users[u].storage_quota_bytes

storageQuotaExceeded(u, fileSize) ==
  usedStorage(u) + fileSize > users[u].storage_quota_bytes

filesQuotaOffByOne(u) == fileCount(u) > users[u].files_quota

filesQuotaExceeded(u) == fileCount(u) >= users[u].files_quota

initiatesInFlight == Cardinality({r \in ReqIds : initiate[r].pc # "idle"})

\* model bound: at most cap File rows are ever inserted
mayInsert(cap) == fileSeq + initiatesInFlight < cap

\* the call starts: size validation and the users lookup
initiateFileUpload_begin(r, userId, fileName, fileSize, contentType) ==
  /\ initiate[r].pc = "idle"
  /\ UNCHANGED <<files, fileSeq, blob, objectType, thumbnails, rowLock, jobs, jobSeq,
                 workers, complete, shares, resolve, now,
                 env, mimeDb, sharing, shareSeq, deleting, allowing>>
  /\ IF sizeTooLarge(fileSize)
       THEN /\ UNCHANGED initiate
            /\ Return("initiate", fileSize, userId, "PayloadTooLarge")
       ELSE /\ initiate' = [initiate EXCEPT ![r] =
                 [pc |-> "storage", userId |-> userId, fileName |-> fileName,
                  fileSize |-> fileSize, contentType |-> contentType]]
            /\ UNCHANGED <<ret, watch>>

\* the storage quota query and its check
initiateFileUpload_storage(r) ==
  /\ initiate[r].pc = "storage"
  /\ UNCHANGED <<files, fileSeq, blob, objectType, thumbnails, rowLock, jobs, jobSeq,
                 workers, complete, shares, resolve, now,
                 env, mimeDb, sharing, shareSeq, deleting, allowing>>
  /\ IF storageQuotaExceeded(initiate[r].userId, initiate[r].fileSize)
       THEN /\ initiate' = [initiate EXCEPT ![r] = IdleInitiate]
            /\ Return("initiate", initiate[r].fileSize, initiate[r].userId,
                      "QuotaExceeded")
       ELSE /\ initiate' = [initiate EXCEPT ![r].pc = "count"]
            /\ UNCHANGED <<ret, watch>>

\* the files quota check made after the row is inserted
initiateInsertsBeforeCount(r) ==
  /\ initiate[r].pc = "count"
  /\ files' = files @@ ((fileSeq + 1) :>
       [owner_id |-> initiate[r].userId, original_name |-> initiate[r].fileName,
        size_bytes |-> initiate[r].fileSize, sha256 |-> NULL,
        detected_mime |-> NULL, status |-> "pending", reason |-> NoReason,
        scanned_at |-> 0])
  /\ fileSeq' = fileSeq + 1
  /\ initiate' = [initiate EXCEPT ![r] = IdleInitiate]
  /\ objectType' = [objectType EXCEPT ![fileSeq + 1] = initiate[r].contentType]
  /\ UNCHANGED <<blob, thumbnails, rowLock, jobs, jobSeq, workers, complete,
                 shares, resolve, now,
                 env, mimeDb, sharing, shareSeq, deleting, allowing>>
  /\ IF filesQuotaExceeded(initiate[r].userId)
       THEN Return("initiate", initiate[r].fileSize, initiate[r].userId,
                   "QuotaExceeded")
       ELSE Return("initiate", initiate[r].fileSize, initiate[r].userId, "ok")

\* the files quota query and its check
initiateFileUpload_count(r) ==
  /\ initiate[r].pc = "count"
  /\ UNCHANGED <<files, fileSeq, blob, objectType, thumbnails, rowLock, jobs, jobSeq,
                 workers, complete, shares, resolve, now,
                 env, mimeDb, sharing, shareSeq, deleting, allowing>>
  /\ IF filesQuotaExceeded(initiate[r].userId)
       THEN /\ initiate' = [initiate EXCEPT ![r] = IdleInitiate]
            /\ Return("initiate", initiate[r].fileSize, initiate[r].userId,
                      "QuotaExceeded")
       ELSE /\ initiate' = [initiate EXCEPT ![r].pc = "insert"]
            /\ UNCHANGED <<ret, watch>>

newFileRowScanning(userId, fileName, fileSize) ==
  [owner_id |-> userId, original_name |-> fileName, size_bytes |-> fileSize,
   sha256 |-> NULL, detected_mime |-> NULL, status |-> "scanning",
   reason |-> NoReason, scanned_at |-> 0]

\* the row a successful INSERT INTO files creates (status defaults to pending)
newFileRow(userId, fileName, fileSize) ==
  [owner_id |-> userId, original_name |-> fileName, size_bytes |-> fileSize,
   sha256 |-> NULL, detected_mime |-> NULL, status |-> "pending",
   reason |-> NoReason, scanned_at |-> 0]

\* generateUploadUrl (the declared contentType is signed into the URL of the
\* new key), INSERT INTO files, auditLog, return
initiateFileUpload_insert(r) ==
  /\ initiate[r].pc = "insert"
  /\ files' = files @@ ((fileSeq + 1) :> newFileRow(initiate[r].userId,
                                 initiate[r].fileName, initiate[r].fileSize))
  /\ fileSeq' = fileSeq + 1
  /\ initiate' = [initiate EXCEPT ![r] = IdleInitiate]
  /\ objectType' = [objectType EXCEPT ![fileSeq + 1] = initiate[r].contentType]
  /\ UNCHANGED <<blob, thumbnails, rowLock, jobs, jobSeq, workers, complete,
                 shares, resolve, now,
                 env, mimeDb, sharing, shareSeq, deleting, allowing>>
  /\ \E outcome \in AuditOutcomes :
       ReturnAudited("initiate", initiate[r].fileSize, initiate[r].userId,
                     afterAudit(outcome, "ok"), outcome)

\* the client PUTs bytes to the presigned URL of key f, out of band.  The
\* store knows nothing of the files table: the URL that generateUploadUrl
\* signed for the key can be used whatever the status of the row, and again,
\* each PUT replacing the object.  It is valid for presignedUrlExpiry = 900
\* seconds, longer than the clock of the model runs.
clientUpload(f, c) ==
  /\ objectType[f] # NULL
  /\ blob' = [blob EXCEPT ![f] = c]
  /\ UNCHANGED <<files, fileSeq, objectType, thumbnails, rowLock, jobs, jobSeq, workers,
                 initiate, complete, shares, resolve, now, watch, ret,
                 env, mimeDb, sharing, shareSeq, deleting, allowing>>

\* ------------------------------------------------------- the job queue
\* fileProcessingQueue.add(`file-${fileId}`, { fileId }, { attempts: 3 })
newJob(fileId) ==
  [fileId |-> fileId, attemptsMade |-> 0, state |-> "waiting", finishedOn |-> 0]

queueAdd(fileId) ==
  /\ jobs' = jobs @@ ((jobSeq + 1) :> newJob(fileId))
  /\ jobSeq' = jobSeq + 1

\* a job whose handler returned: removeOnComplete: true
jobCompleted(j) == [k \in DOMAIN jobs \ {j} |-> jobs[k]]

retryOnceMore(made) == made <= attempts

\* whether a job that has failed made times is retried
retryAllowed(made) == made < attempts

\* the latest finishedOn among the failed jobs kept (0 when there is none)
lastFinished ==
  LET stamps == {jobs[k].finishedOn : k \in DOMAIN jobs} IN
  IF stamps = {} THEN 0 ELSE CHOOSE m \in stamps : \A n \in stamps : n <= m

\* the failed set keeps the keep most recently failed jobs
keepLastFailed(js, stamp, keep) ==
  [k \in {i \in DOMAIN js :
            js[i].state # "failed" \/ js[i].finishedOn > stamp - keep} |-> js[k]]

\* a job whose handler threw: retried while attempts remain; else it moves to
\* the failed set, which removeOnFail: 100 trims to the last 100 failed jobs
jobFailed(j) ==
  LET made == jobs[j].attemptsMade + 1 IN
  IF retryAllowed(made)
    THEN [jobs EXCEPT ![j].attemptsMade = made, ![j].state = "waiting"]
    ELSE keepLastFailed([jobs EXCEPT ![j].attemptsMade = made,
                                     ![j].state = "failed",
                                     ![j].finishedOn = lastFinished + 1],
                        lastFinished + 1, removeOnFail)

\* ------------------------------------------------------- completeFileUpload
\* SELECT * FROM files WHERE id = $1 AND owner_id = $2 : a row is returned
completeSelectFinds(fileId, userId) ==
  /\ fileId \in DOMAIN files
  /\ files[fileId].owner_id = userId

completesInFlight == Cardinality({r \in ReqIds : complete[r].pc # "idle"})

\* model bound: at most cap jobs are ever added
mayEnqueue(cap) == jobSeq + completesInFlight < cap

\* BEGIN and the SELECT; no row: throw, ROLLBACK, rethrow
completeFileUpload_select(r, fileId, userId) ==
  /\ complete[r].pc = "idle"
  /\ UNCHANGED <<files, fileSeq, blob, objectType, thumbnails, rowLock, jobs, jobSeq,
                 workers, initiate, shares, resolve, now,
                 env, mimeDb, sharing, shareSeq, deleting, allowing>>
  /\ IF completeSelectFinds(fileId, userId)
       THEN /\ complete' = [complete EXCEPT ![r] =
                 [pc |-> "update", fileId |-> fileId, userId |-> userId,
                  locked |-> FALSE]]
            /\ UNCHANGED <<ret, watch>>
       ELSE /\ UNCHANGED complete
            /\ Return("complete", fileId, userId, "NotFound")

\* UPDATE files SET status = 'scanning' inside the transaction: takes the
\* row lock (waits while another transaction holds it); the new status is
\* visible to others only at COMMIT
completeFileUpload_update(r) ==
  /\ complete[r].pc = "update"
  /\ LET f == complete[r].fileId IN
       IF f \in DOMAIN files
         THEN /\ rowLock[f] = 0
              /\ rowLock' = [rowLock EXCEPT ![f] = r]
              /\ complete' = [complete EXCEPT ![r].pc = "add", ![r].locked = TRUE]
         ELSE /\ complete' = [complete EXCEPT ![r].pc = "add"]
              /\ UNCHANGED rowLock
  /\ UNCHANGED <<files, fileSeq, blob, objectType, thumbnails, jobs, jobSeq, workers,
                 initiate, shares, resolve, now, watch, ret,
                 env, mimeDb, sharing, shareSeq, deleting, allowing>>

\* locks of transaction r released (COMMIT or ROLLBACK)
releaseLocks(r) == [f \in FileIds |-> IF rowLock[f] = r THEN 0 ELSE rowLock[f]]

\* a ROLLBACK that keeps the status flip of the call
rollbackKeepsFlip(r) ==
  /\ rowLock' = releaseLocks(r)
  /\ complete' = [complete EXCEPT ![r] = IdleComplete]
  /\ files' = IF complete[r].locked /\ complete[r].fileId \in DOMAIN files
                THEN [files EXCEPT ![complete[r].fileId].status = "scanning"]
                ELSE files

\* what ROLLBACK leaves of the work done so far by the call
rollbackComplete(r) ==
  /\ rowLock' = releaseLocks(r)
  /\ complete' = [complete EXCEPT ![r] = IdleComplete]
  /\ UNCHANGED files

\* fileProcessingQueue.add: the job is added, or the add throws (Redis
\* unreachable) and the catch block rolls the transaction back
completeFileUpload_add(r) ==
  /\ complete[r].pc = "add"
  /\ UNCHANGED <<fileSeq, blob, objectType, thumbnails, workers, initiate, shares,
                 resolve, now,
                 env, mimeDb, sharing, shareSeq, deleting, allowing>>
  /\ \/ /\ queueAdd(complete[r].fileId)
        /\ complete' = [complete EXCEPT ![r].pc = "commit"]
        /\ UNCHANGED <<files, rowLock, watch, ret>>
     \/ /\ rollbackComplete(r)
        /\ UNCHANGED <<jobs, jobSeq>>
        /\ Return("complete", complete[r].fileId, complete[r].userId,
                  "EnqueueFailed")

\* the files table after the transaction's UPDATE is committed
commitComplete(r) ==
  IF complete[r].locked /\ complete[r].fileId \in DOMAIN files
    THEN [files EXCEPT ![complete[r].fileId].status = "scanning"]
    ELSE files

\* COMMIT, auditLog, return file; or COMMIT throws and the catch block
\* issues ROLLBACK (the job added to the queue is not part of the
\* database transaction).  A throw after COMMIT would reach the same catch
\* block, whose ROLLBACK then finds no transaction to undo.
completeFileUpload_commit(r) ==
  /\ complete[r].pc = "commit"
  /\ UNCHANGED <<fileSeq, blob, objectType, thumbnails, jobs, jobSeq, workers, initiate,
                 shares, resolve, now,
                 env, mimeDb, sharing, shareSeq, deleting, allowing>>
  /\ \/ /\ files' = commitComplete(r)
        /\ rowLock' = releaseLocks(r)
        /\ complete' = [complete EXCEPT ![r] = IdleComplete]
        /\ \E outcome \in AuditOutcomes :
             ReturnAudited("complete", complete[r].fileId, complete[r].userId,
                           afterAudit(outcome, "ok"), outcome)
     \/ /\ rollbackComplete(r)
        /\ Return("complete", complete[r].fileId, complete[r].userId,
                  "CommitFailed")

\* ------------------------------------------------------- worker / processFile
fileOf(w) == jobs[workers[w].job].fileId

\* the worker takes a waiting job and calls processFile(job.data.fileId)
worker_take(w, j) ==
  /\ workers[w].pc = "idle"
  /\ \A v \in WorkerIds : v < w => workers[v].pc # "idle"
  /\ j \in DOMAIN jobs
  /\ jobs[j].state = "waiting"
  /\ jobs' = [jobs EXCEPT ![j].state = "active"]
  /\ workers' = [workers EXCEPT ![w] = [IdleWorker EXCEPT !.pc = "start", !.job = j]]
  /\ UNCHANGED <<files, fileSeq, blob, objectType, thumbnails, rowLock, jobSeq, initiate,
                 complete, shares, resolve, now, watch, ret,
                 env, mimeDb, sharing, shareSeq, deleting, allowing>>

\* the row after the first statement of processFile:
\* UPDATE files SET status = 'scanning', updated_at = NOW() WHERE id = $2
markScanning(row) == [row EXCEPT !.status = "scanning"]

\* an UPDATE of row f outside a transaction: waits for the row lock
updateRow(f, row) ==
  IF f \in DOMAIN files THEN [files EXCEPT ![f] = row] ELSE files

canWrite(f) == f \notin DOMAIN files \/ rowLock[f] = 0

processFile_start(w) ==
  /\ workers[w].pc = "start"
  /\ canWrite(fileOf(w))
  /\ files' = IF fileOf(w) \in DOMAIN files
                THEN updateRow(fileOf(w), markScanning(files[fileOf(w)]))
                ELSE files
  /\ workers' = [workers EXCEPT ![w].pc = "select"]
  /\ UNCHANGED <<fileSeq, blob, objectType, thumbnails, rowLock, jobs, jobSeq, initiate,
                 complete, shares, resolve, now, watch, ret,
                 env, mimeDb, sharing, shareSeq, deleting, allowing>>

\* SELECT * FROM files WHERE id = $1; no row: throw `File not found`
processFile_select(w) ==
  /\ workers[w].pc = "select"
  /\ workers' = IF fileOf(w) \in DOMAIN files
                  THEN [workers EXCEPT ![w].pc = "download",
                          ![w].name = files[fileOf(w)].original_name]
                  ELSE [workers EXCEPT ![w].pc = "catch",
                                       ![w].err = "File not found"]
  /\ UNCHANGED <<files, fileSeq, blob, objectType, thumbnails, rowLock, jobs, jobSeq,
                 initiate, complete, shares, resolve, now, watch, ret,
                 env, mimeDb, sharing, shareSeq, deleting, allowing>>

\* downloadFileFromS3(file.storage_key): the bytes, or it throws (no such
\* object, or the store is unreachable)
processFile_download(w) ==
  /\ workers[w].pc = "download"
  /\ \/ /\ blob[fileOf(w)] # NULL
        /\ workers' = [workers EXCEPT ![w].pc = "dedup",
                                      ![w].buf = blob[fileOf(w)]]
     \/ workers' = [workers EXCEPT ![w].pc = "catch",
                       ![w].err = "Failed to download file from storage"]
  /\ UNCHANGED <<files, fileSeq, blob, objectType, thumbnails, rowLock, jobs, jobSeq,
                 initiate, complete, shares, resolve, now, watch, ret,
                 env, mimeDb, sharing, shareSeq, deleting, allowing>>

\* the store takes the request and never answers: s3Client.send, or the read
\* of the body, stays pending; neither the client, the call, processFile nor
\* the worker sets a limit to the wait
processFile_downloadHangs(w) ==
  /\ workers[w].pc = "download"
  /\ workers' = [workers EXCEPT ![w].pc = "hung"]
  /\ UNCHANGED <<files, fileSeq, blob, objectType, thumbnails, rowLock, jobs, jobSeq,
                 initiate, complete, shares, resolve, now, watch, ret,
                 env, mimeDb, sharing, shareSeq, deleting, allowing>>

\* initClamAV, clamscan.scanBuffer, or uploadFileToS3 of the derivative
\* never answers: none of them is given a limit to wait either
processFile_scanHangs(w) ==
  /\ workers[w].pc = "scan"
  /\ workers' = [workers EXCEPT ![w].pc = "hung"]
  /\ UNCHANGED <<files, fileSeq, blob, objectType, thumbnails, rowLock, jobs,
                 jobSeq, initiate, complete, shares, resolve, now, env, mimeDb, sharing,
                 shareSeq, deleting, watch, ret, allowing>>

duplicatesAnyStatus(f, sha) ==
  {d \in DOMAIN files : d # f /\ files[d].sha256 = sha}

\* SELECT id FROM files WHERE sha256 = $1 AND id != $2 AND status = 'clean'
duplicatesOf(f, sha) ==
  {d \in DOMAIN files :
     d # f /\ files[d].sha256 = sha /\ files[d].status = "clean"}

\* the deduplication query (only when enabled by configuration)
processFile_dedup(w) ==
  /\ workers[w].pc = "dedup"
  /\ workers' =
       IF enableFileDeduplication
          /\ duplicatesOf(fileOf(w), sha256Of(workers[w].buf)) # {}
         THEN [workers EXCEPT ![w].pc = "dedupCommit"]
         ELSE [workers EXCEPT ![w].pc = "scan"]
  /\ UNCHANGED <<files, fileSeq, blob, objectType, thumbnails, rowLock, jobs, jobSeq,
                 initiate, complete, shares, resolve, now, watch, ret,
                 env, mimeDb, sharing, shareSeq, deleting, allowing>>

\* UPDATE files SET sha256 = $1, status = 'clean', scanned_at = NOW()
dedupRow(row, sha) ==
  [row EXCEPT !.sha256 = sha, !.status = "clean", !.scanned_at = now]

\* the duplicate shortcut, its UPDATE: the row is clean from here on, while
\* the attempt goes on to its auditLog and the job is still active
processFile_dedupCommit(w) ==
  /\ workers[w].pc = "dedupCommit"
  /\ canWrite(fileOf(w))
  /\ files' = IF fileOf(w) \in DOMAIN files
                THEN updateRow(fileOf(w),
                       dedupRow(files[fileOf(w)], sha256Of(workers[w].buf)))
                ELSE files
  /\ workers' = [workers EXCEPT ![w].pc = "dedupAudit"]
  /\ UNCHANGED <<fileSeq, blob, objectType, thumbnails, rowLock, jobs, jobSeq,
                 initiate, complete, shares, resolve, now, env, mimeDb, sharing,
                 shareSeq, deleting, watch, ret, allowing>>

\* auditLog FILE_DEDUPLICATED after the UPDATE of the shortcut, then
\* processFile returns; had auditLog thrown, the catch block would be entered
processFile_dedupAudit(w) ==
  /\ workers[w].pc = "dedupAudit"
  /\ UNCHANGED <<files, fileSeq, blob, objectType, thumbnails, rowLock, jobs,
                 jobSeq, initiate, complete, shares, resolve, now, env, mimeDb, sharing,
                 shareSeq, deleting, allowing>>
  /\ \E outcome \in AuditOutcomes :
       /\ workers' = IF auditLog(outcome) = "thrown"
                       THEN [workers EXCEPT ![w].pc = "catch", ![w].err = "audit"]
                       ELSE [workers EXCEPT ![w].pc = "returned"]
       /\ ReturnAudited("processFile", fileOf(w), NULL,
                        afterAudit(outcome, "returned"), outcome)

\* auditLog FILE_PROCESSED after the final UPDATE, then processFile returns
processFile_audit(w) ==
  /\ workers[w].pc = "audit"
  /\ UNCHANGED <<files, fileSeq, blob, objectType, thumbnails, rowLock, jobs,
                 jobSeq, initiate, complete, shares, resolve, now, env, mimeDb, sharing,
                 shareSeq, deleting, allowing>>
  /\ \E outcome \in AuditOutcomes :
       /\ workers' = IF auditLog(outcome) = "thrown"
                       THEN [workers EXCEPT ![w].pc = "catch", ![w].err = "audit"]
                       ELSE [workers EXCEPT ![w].pc = "returned"]
       /\ ReturnAudited("processFile", fileOf(w), NULL,
                        afterAudit(outcome, "returned"), outcome)

\* the handler of the worker has returned { success: true }: the queue
\* records the completion, removes the job and the slot is free
worker_completed(w) ==
  /\ workers[w].pc = "returned"
  /\ jobs' = jobCompleted(workers[w].job)
  /\ workers' = [workers EXCEPT ![w] = IdleWorker]
  /\ UNCHANGED <<files, fileSeq, blob, objectType, thumbnails, rowLock, jobSeq,
                 initiate, complete, shares, resolve, now, env, mimeDb, sharing,
                 shareSeq, deleting, watch, ret, allowing>>

\* fileTypeResult?.mime || mime.lookup(file.original_name) ||
\* 'application/octet-stream'
detectMime(buf, name) ==
  IF fileTypeFromBuffer(buf) # NULL THEN fileTypeFromBuffer(buf)
  ELSE IF mimeLookup(name) # NULL THEN mimeLookup(name)
  ELSE "application/octet-stream"

\* a classification that consults the MIME denylist first
classifyMimeFirst(scanResult, detectedMime) ==
  IF detectedMime \in dangerousFileTypes
    THEN [status |-> "quarantined",
          reason |-> <<"Potentially dangerous file type detected: ", detectedMime>>]
  ELSE IF scanResult.isInfected
    THEN [status |-> "quarantined",
          reason |-> <<"Virus detected: ", scanResult.viruses>>]
  ELSE [status |-> "clean", reason |-> NoReason]

\* the classification: [status, reason]
classify(scanResult, detectedMime) ==
  IF scanResult.isInfected
    THEN [status |-> "quarantined",
          reason |-> <<"Virus detected: ", scanResult.viruses>>]
  ELSE IF detectedMime \in dangerousFileTypes
    THEN [status |-> "quarantined",
          reason |-> <<"Potentially dangerous file type detected: ", detectedMime>>]
  ELSE [status |-> "clean", reason |-> NoReason]

\* what the attempt of worker w will commit
verdictOf(w) ==
  classify(workers[w].scanResult,
           detectMime(workers[w].buf, workers[w].name))

\* the thumbnail branch is entered
wantsThumbnail(status, detectedMime) ==
  /\ status = "clean"
  /\ isImageMime(detectedMime)
  /\ detectedMime # "image/svg+xml"

\* an SVG branch entered whatever the classification
wantsSvgPreviewAnyStatus(status, detectedMime) == detectedMime = "image/svg+xml"

\* the SVG-to-PNG branch is entered
wantsSvgPreview(status, detectedMime) ==
  status = "clean" /\ detectedMime = "image/svg+xml"

\* what the scan step can throw: the error initClamAV makes of a failed
\* initialisation, or the error of clamscan.scanBuffer as it is
ScannerErrors == {"Failed to initialize virus scanner", "clamd timeout"}

\* a scan step that treats a scanner failure as a clean verdict
processFile_scanFailOpen(w) ==
  /\ workers[w].pc = "scan"
  /\ \/ LET mime == detectMime(workers[w].buf, workers[w].name)
            scanResult == scanBuffer(workers[w].buf)
            v == classify(scanResult, mime)
        IN \E outcome \in AuditOutcomes :
             IF v.status = "quarantined" /\ auditLog(outcome) = "thrown"
               THEN /\ workers' = [workers EXCEPT ![w].pc = "catch",
                                                  ![w].err = "audit"]
                    /\ UNCHANGED thumbnails
               ELSE /\ workers' = [workers EXCEPT ![w].pc = "commit",
                                                  ![w].scanResult = scanResult]
                    /\ IF wantsThumbnail(v.status, mime)
                          \/ wantsSvgPreview(v.status, mime)
                         THEN \/ thumbnails' = thumbnails \cup {fileOf(w)}
                              \/ UNCHANGED thumbnails
                         ELSE UNCHANGED thumbnails
     \/ /\ workers' = [workers EXCEPT ![w].pc = "commit",
                          ![w].scanResult = [isInfected |-> FALSE, viruses |-> <<>>]]
        /\ UNCHANGED thumbnails
  /\ UNCHANGED <<files, fileSeq, blob, objectType, rowLock, jobs, jobSeq, initiate,
                 complete, shares, resolve, now, watch, ret,
                 env, mimeDb, sharing, shareSeq, deleting, allowing>>

\* a scan step that lets a failure of the derivative end the attempt
processFile_scanThumbnailThrows(w) ==
  /\ workers[w].pc = "scan"
  /\ \/ LET mime == detectMime(workers[w].buf, workers[w].name)
            scanResult == scanBuffer(workers[w].buf)
            v == classify(scanResult, mime)
        IN \E outcome \in AuditOutcomes :
             IF v.status = "quarantined" /\ auditLog(outcome) = "thrown"
               THEN /\ workers' = [workers EXCEPT ![w].pc = "catch",
                                                  ![w].err = "audit"]
                    /\ UNCHANGED thumbnails
               ELSE IF wantsThumbnail(v.status, mime)
                       \/ wantsSvgPreview(v.status, mime)
                 THEN \/ /\ workers' = [workers EXCEPT ![w].pc = "commit",
                                           ![w].scanResult = scanResult]
                         /\ thumbnails' = thumbnails \cup {fileOf(w)}
                      \/ /\ workers' = [workers EXCEPT ![w].pc = "catch",
                                           ![w].err = "Failed to upload file to storage"]
                         /\ UNCHANGED thumbnails
                 ELSE /\ workers' = [workers EXCEPT ![w].pc = "commit",
                                                    ![w].scanResult = scanResult]
                      /\ UNCHANGED thumbnails
     \/ /\ \E e \in ScannerErrors :
             workers' = [workers EXCEPT ![w].pc = "catch", ![w].err = e]
        /\ UNCHANGED thumbnails
  /\ UNCHANGED <<files, fileSeq, blob, objectType, rowLock, jobs, jobSeq, initiate,
                 complete, shares, resolve, now, watch, ret,
                 env, mimeDb, sharing, shareSeq, deleting, allowing>>

\* MIME detection, initClamAV and scanBuffer, classification, the auditLog of
\* a quarantine and the derivative: the scanner answers, or initClamAV or
\* scanBuffer throws; a failure of sharp or of uploadFileToS3 is caught and
\* logged
processFile_scan(w) ==
  /\ workers[w].pc = "scan"
  /\ \/ LET mime == detectMime(workers[w].buf, workers[w].name)
            scanResult == scanBuffer(workers[w].buf)
            v == classify(scanResult, mime)
        IN \E outcome \in AuditOutcomes :
             IF v.status = "quarantined" /\ auditLog(outcome) = "thrown"
               THEN /\ workers' = [workers EXCEPT ![w].pc = "catch",
                                                  ![w].err = "audit"]
                    /\ UNCHANGED thumbnails
               ELSE /\ workers' = [workers EXCEPT ![w].pc = "commit",
                                                  ![w].scanResult = scanResult]
                    /\ IF wantsThumbnail(v.status, mime)
                          \/ wantsSvgPreview(v.status, mime)
                         THEN \/ thumbnails' = thumbnails \cup {fileOf(w)}
                              \/ UNCHANGED thumbnails
                         ELSE UNCHANGED thumbnails
     \/ /\ \E e \in ScannerErrors :
             workers' = [workers EXCEPT ![w].pc = "catch", ![w].err = e]
        /\ UNCHANGED thumbnails
  /\ UNCHANGED <<files, fileSeq, blob, objectType, rowLock, jobs, jobSeq, initiate,
                 complete, shares, resolve, now, watch, ret,
                 env, mimeDb, sharing, shareSeq, deleting, allowing>>

\* UPDATE files SET sha256, detected_mime, status, reason, scanned_at = NOW()
resultRow(row, sha, mime, v) ==
  [row EXCEPT !.sha256 = sha, !.detected_mime = mime, !.status = v.status,
              !.reason = v.reason, !.scanned_at = now]

\* a commit that takes the Content-Type of the object for the MIME type
processFile_commitDeclaredType(w) ==
  /\ workers[w].pc = "commit"
  /\ canWrite(fileOf(w))
  /\ files' = IF fileOf(w) \in DOMAIN files
                THEN updateRow(fileOf(w),
                       resultRow(files[fileOf(w)], sha256Of(workers[w].buf),
                                 objectType[fileOf(w)],
                                 classify(workers[w].scanResult,
                                          objectType[fileOf(w)])))
                ELSE files
  /\ workers' = [workers EXCEPT ![w].pc = "audit"]
  /\ UNCHANGED <<fileSeq, blob, objectType, thumbnails, rowLock, jobs, jobSeq,
                 initiate, complete, shares, resolve, now, env, mimeDb, sharing,
                 shareSeq, deleting, watch, ret, allowing>>

\* the final UPDATE: the result is in the row from here on, while the
\* attempt goes on to its auditLog and the job is still active
processFile_commit(w) ==
  /\ workers[w].pc = "commit"
  /\ canWrite(fileOf(w))
  /\ files' = IF fileOf(w) \in DOMAIN files
                THEN updateRow(fileOf(w),
                       resultRow(files[fileOf(w)], sha256Of(workers[w].buf),
                                 detectMime(workers[w].buf, workers[w].name),
                                 verdictOf(w)))
                ELSE files
  /\ workers' = [workers EXCEPT ![w].pc = "audit"]
  /\ UNCHANGED <<fileSeq, blob, objectType, thumbnails, rowLock, jobs, jobSeq,
                 initiate, complete, shares, resolve, now, env, mimeDb, sharing,
                 shareSeq, deleting, watch, ret, allowing>>

rejectedRowBare(row, message) ==
  [row EXCEPT !.status = "rejected", !.reason = <<message>>, !.scanned_at = now]

\* UPDATE files SET status = 'rejected', reason = `Processing error: ...`,
\* scanned_at = NOW()
rejectedRow(row, message) ==
  [row EXCEPT !.status = "rejected",
              !.reason = <<"Processing error: ", message>>,
              !.scanned_at = now]

\* a catch block that rethrows without writing the row
processFile_catchRethrowsOnly(w) ==
  /\ workers[w].pc = "catch"
  /\ workers' = [workers EXCEPT ![w].pc = "rethrow"]
  /\ UNCHANGED <<files, fileSeq, blob, objectType, thumbnails, rowLock, jobs,
                 jobSeq, initiate, complete, shares, resolve, now, env, mimeDb, sharing,
                 shareSeq, deleting, watch, ret, allowing>>

\* the catch block: the UPDATE, then `throw error`; the row is rejected from
\* here on, while the job is still active with the attempts it had
processFile_catch(w) ==
  /\ workers[w].pc = "catch"
  /\ canWrite(fileOf(w))
  /\ files' = IF fileOf(w) \in DOMAIN files
                THEN updateRow(fileOf(w),
                       rejectedRow(files[fileOf(w)], workers[w].err))
                ELSE files
  /\ workers' = [workers EXCEPT ![w].pc = "rethrow"]
  /\ UNCHANGED <<fileSeq, blob, objectType, thumbnails, rowLock, jobs, jobSeq,
                 initiate, complete, shares, resolve, now, env, mimeDb, sharing,
                 shareSeq, deleting, watch, ret, allowing>>

\* the handler of the worker rethrows: the queue records the failed attempt
\* and the slot is free
worker_failed(w) ==
  /\ workers[w].pc = "rethrow"
  /\ jobs' = jobFailed(workers[w].job)
  /\ workers' = [workers EXCEPT ![w] = IdleWorker]
  /\ UNCHANGED <<files, fileSeq, blob, objectType, thumbnails, rowLock, jobSeq,
                 initiate, complete, shares, resolve, now, env, mimeDb, sharing,
                 shareSeq, deleting, watch, ret, allowing>>

\* ------------------------------------------------------- generateFileDownloadUrl
\* expires_at > NOW()
unexpired(share) == share.expires_at > now

\* SELECT * FROM files WHERE id = $1 AND (owner_id = $2 OR EXISTS (SELECT 1
\* FROM file_shares WHERE file_id = $1 AND expires_at > NOW()))
downloadSelectFinds(fileId, userId) ==
  /\ fileId \in DOMAIN files
  /\ \/ files[fileId].owner_id = userId
     \/ \E s \in DOMAIN shares :
          shares[s].file_id = fileId /\ unexpired(shares[s])

\* the status check: only a clean file is served
downloadAnyStatus(row) == TRUE

downloadAllowed(row) == row.status = "clean"

generateFileDownloadUrl(fileId, userId) ==
  /\ UNCHANGED <<files, fileSeq, blob, objectType, thumbnails, rowLock, jobs, jobSeq,
                 workers, initiate, complete, shares, resolve, now,
                 env, mimeDb, sharing, shareSeq, deleting, allowing>>
  /\ IF ~downloadSelectFinds(fileId, userId)
       THEN Return("download", fileId, userId, "NotFound")
       ELSE IF ~downloadAllowed(files[fileId])
         THEN Return("download", fileId, userId, "InvalidState")
         ELSE \E outcome \in AuditOutcomes :
                ReturnAudited("download", fileId, userId,
                              afterAudit(outcome, "url"), outcome)

\* ------------------------------------------------------- createFileShare
\* canAccessFile(fileId, userId, requireOwnership)
canAccessFile(fileId, userId, requireOwnership) ==
  \/ ~requireOwnership /\ users[userId].role = "admin"
  \/ fileId \in DOMAIN files /\ files[fileId].owner_id = userId

\* the status check: only a clean file is shared
shareAllowed(row) == row.status = "clean"

\* const expiresAt = new Date(); expiresAt.setMinutes(... + expiresInMinutes)
expiryAfter(expiresInMinutes) == now + expiresInMinutes

newShareRow(fileId, userId, expiresAt, oneTimeUse) ==
  [file_id |-> fileId, created_by |-> userId, expires_at |-> expiresAt,
   one_time_use |-> oneTimeUse, used_at |-> 0]

sharesInFlight == Cardinality({r \in ReqIds : sharing[r].pc # "idle"})

\* model bound: at most MaxShares share rows are ever inserted
mayShare == shareSeq + sharesInFlight < MaxShares

\* await canAccessFile(fileId, userId): no access, throw
\* `File not found or access denied`
createFileShare_access(r, fileId, userId, expiresInMinutes, oneTimeUse) ==
  /\ sharing[r].pc = "idle"
  /\ UNCHANGED <<files, fileSeq, blob, objectType, thumbnails, rowLock, jobs, jobSeq,
                 workers, initiate, complete, shares, resolve, now, env, mimeDb, shareSeq,
                 deleting, allowing>>
  /\ IF ~canAccessFile(fileId, userId, TRUE)
       THEN /\ UNCHANGED sharing
            /\ Return("createShare", fileId, userId, "NotFound")
       ELSE /\ sharing' = [sharing EXCEPT ![r] =
                 [pc |-> "file", fileId |-> fileId, userId |-> userId,
                  expiresInMinutes |-> expiresInMinutes,
                  oneTimeUse |-> oneTimeUse, expiresAt |-> 0]]
            /\ UNCHANGED <<ret, watch>>

\* SELECT * FROM files WHERE id = $1, then file.status !== 'clean'.  rows[0]
\* is read without a look at rowCount: if the row is gone since the access
\* check, file is undefined and file.status throws a TypeError.  expiresAt
\* is computed here, before the INSERT is sent.
createFileShare_file(r) ==
  /\ sharing[r].pc = "file"
  /\ UNCHANGED <<files, fileSeq, blob, objectType, thumbnails, rowLock, jobs, jobSeq,
                 workers, initiate, complete, shares, resolve, now, env, mimeDb, shareSeq,
                 deleting, allowing>>
  /\ LET f == sharing[r].fileId IN
       IF f \notin DOMAIN files
         THEN /\ sharing' = [sharing EXCEPT ![r] = IdleSharing]
              /\ Return("createShare", f, sharing[r].userId, "TypeError")
         ELSE IF ~shareAllowed(files[f])
           THEN /\ sharing' = [sharing EXCEPT ![r] = IdleSharing]
                /\ Return("createShare", f, sharing[r].userId, "InvalidState")
           ELSE /\ sharing' = [sharing EXCEPT ![r].pc = "insert",
                      ![r].expiresAt = expiryAfter(sharing[r].expiresInMinutes)]
                /\ UNCHANGED <<ret, watch>>

\* INSERT INTO file_shares, auditLog, return the token.  The INSERT fails on
\* the foreign key file_shares.file_id if the row is gone since the SELECT;
\* it does not look at the status again.
createFileShare_insert(r) ==
  /\ sharing[r].pc = "insert"
  /\ sharing' = [sharing EXCEPT ![r] = IdleSharing]
  /\ UNCHANGED <<files, fileSeq, blob, objectType, thumbnails, rowLock, jobs, jobSeq,
                 workers, initiate, complete, resolve, now, env, mimeDb, deleting, allowing>>
  /\ LET f == sharing[r].fileId IN
       IF f \notin DOMAIN files
         THEN /\ UNCHANGED <<shares, shareSeq>>
              /\ Return("createShare", f, sharing[r].userId, "ForeignKeyViolation")
         ELSE /\ shares' = shares @@
                   ((shareSeq + 1) :>
                      newShareRow(f, sharing[r].userId, sharing[r].expiresAt,
                                  sharing[r].oneTimeUse))
              /\ shareSeq' = shareSeq + 1
              /\ \E outcome \in AuditOutcomes :
                   ReturnAudited("createShare", f, sharing[r].userId,
                                 afterAudit(outcome, "ok"), outcome)

\* ------------------------------------------------------- getFileByShareToken
\* SELECT * FROM file_shares WHERE share_token = $1 AND expires_at > NOW()
\* AND (one_time_use = FALSE OR used_at IS NULL) : a row is returned
shareSelectIgnoresUse(token) ==
  /\ token \in DOMAIN shares
  /\ unexpired(shares[token])

shareSelectFinds(token) ==
  /\ token \in DOMAIN shares
  /\ unexpired(shares[token])
  /\ (~shares[token].one_time_use \/ shares[token].used_at = 0)

getFileByShareToken_select(r, token) ==
  /\ resolve[r].pc = "idle"
  /\ UNCHANGED <<files, fileSeq, blob, objectType, thumbnails, rowLock, jobs, jobSeq,
                 workers, initiate, complete, shares, now,
                 env, mimeDb, sharing, shareSeq, deleting, allowing>>
  /\ IF shareSelectFinds(token)
       THEN /\ resolve' = [resolve EXCEPT ![r] =
                 [pc |-> "file", token |-> token, share |-> shares[token]]]
            /\ UNCHANGED <<ret, watch>>
       ELSE /\ UNCHANGED resolve
            /\ Return("resolve", token, NULL, "NotFound")

\* SELECT * FROM files WHERE id = $1 AND status = 'clean' : a row is returned
shareFileFinds(fileId) ==
  fileId \in DOMAIN files /\ files[fileId].status = "clean"

\* a file step that marks a one-time share used before it looks at the file
getFileByShareToken_fileMarksFirst(r) ==
  /\ resolve[r].pc = "file"
  /\ UNCHANGED <<files, fileSeq, blob, objectType, thumbnails, rowLock, jobs, jobSeq,
                 workers, initiate, complete, now,
                 env, mimeDb, sharing, shareSeq, deleting, allowing>>
  /\ resolve' = [resolve EXCEPT ![r] = IdleResolve]
  /\ LET share == resolve[r].share IN
       /\ shares' = IF share.one_time_use /\ resolve[r].token \in DOMAIN shares
                       THEN [shares EXCEPT ![resolve[r].token].used_at = now]
                       ELSE shares
       /\ IF ~shareFileFinds(share.file_id)
            THEN Return("resolve", resolve[r].token, NULL, "NotFound")
            ELSE \E outcome \in AuditOutcomes :
                   ReturnAudited("resolve", resolve[r].token, NULL,
                                 afterAudit(outcome, "file"), outcome)

\* the file query; a share that is not one-time returns here
getFileByShareToken_file(r) ==
  /\ resolve[r].pc = "file"
  /\ UNCHANGED <<files, fileSeq, blob, objectType, thumbnails, rowLock, jobs, jobSeq,
                 workers, initiate, complete, shares, now,
                 env, mimeDb, sharing, shareSeq, deleting, allowing>>
  /\ LET share == resolve[r].share IN
       IF ~shareFileFinds(share.file_id)
         THEN /\ resolve' = [resolve EXCEPT ![r] = IdleResolve]
              /\ Return("resolve", resolve[r].token, NULL, "NotFound")
         ELSE IF share.one_time_use
           THEN /\ resolve' = [resolve EXCEPT ![r].pc = "update"]
                /\ UNCHANGED <<ret, watch>>
           ELSE /\ resolve' = [resolve EXCEPT ![r] = IdleResolve]
                /\ \E outcome \in AuditOutcomes :
                     ReturnAudited("resolve", resolve[r].token, NULL,
                                   afterAudit(outcome, "file"), outcome)

\* UPDATE file_shares SET used_at = NOW() WHERE id = $1
markUsed(token) ==
  IF token \in DOMAIN shares
    THEN [shares EXCEPT ![token].used_at = now]
    ELSE shares

\* a one-time share: mark it used, auditLog, return the file
getFileByShareToken_update(r) ==
  /\ resolve[r].pc = "update"
  /\ shares' = markUsed(resolve[r].token)
  /\ resolve' = [resolve EXCEPT ![r] = IdleResolve]
  /\ UNCHANGED <<files, fileSeq, blob, objectType, thumbnails, rowLock, jobs, jobSeq,
                 workers, initiate, complete, now,
                 env, mimeDb, sharing, shareSeq, deleting, allowing>>
  /\ \E outcome \in AuditOutcomes :
       ReturnAudited("resolve", resolve[r].token, NULL,
                     afterAudit(outcome, "file"), outcome)

\* ------------------------------------------------------- adminFileActionHandler
\* action 'allow': UPDATE files SET status = 'clean', reason = NULL
allowRow(row) == [row EXCEPT !.status = "clean", !.reason = NoReason]

\* the first statement of the handler: await getFileById(id); no row: 404
\* {error: 'File not found'} and nothing changes
adminFileActionHandler_getFile(r, fileId) ==
  /\ allowing[r].pc = "idle"
  /\ UNCHANGED <<files, fileSeq, blob, objectType, thumbnails, rowLock, jobs,
                 jobSeq, workers, initiate, complete, shares, resolve, now, env, mimeDb,
                 sharing, shareSeq, deleting>>
  /\ IF fileId \notin DOMAIN files
       THEN /\ UNCHANGED allowing
            /\ Return("allow", fileId, "root", "NotFound")
       ELSE /\ allowing' = [allowing EXCEPT ![r] =
                              [pc |-> "update", fileId |-> fileId]]
            /\ UNCHANGED <<ret, watch>>

\* action 'allow': the UPDATE (which waits for the row lock), then 200
\* {success: true}; the handler does not look at the row count, so the reply
\* is the same when the row has gone since getFileById
adminFileActionHandler_allow(r) ==
  /\ allowing[r].pc = "update"
  /\ canWrite(allowing[r].fileId)
  /\ files' = IF allowing[r].fileId \in DOMAIN files
                THEN updateRow(allowing[r].fileId,
                               allowRow(files[allowing[r].fileId]))
                ELSE files
  /\ allowing' = [allowing EXCEPT ![r] = IdleAllowing]
  /\ UNCHANGED <<fileSeq, blob, objectType, thumbnails, rowLock, jobs, jobSeq,
                 workers, initiate, complete, shares, resolve, now, env, mimeDb,
                 sharing, shareSeq, deleting>>
  /\ Return("allow", allowing[r].fileId, "root", "ok")

\* ------------------------------------------------------- deleteFile
\* ON DELETE CASCADE: the share rows of a deleted file go with it
cascadeShares(fileId) ==
  [t \in {x \in DOMAIN shares : shares[x].file_id # fileId} |-> shares[t]]

\* the first statement of deleteFile: for a caller who is not an
\* administrator await canAccessFile(fileId, userId), no access: throw
\* `File not found or access denied`; for an administrator the SELECT
deleteFile_access(r, fileId, userId, isAdmin) ==
  /\ deleting[r].pc = "idle"
  /\ UNCHANGED <<files, fileSeq, blob, objectType, thumbnails, rowLock, jobs, jobSeq,
                 workers, initiate, complete, shares, resolve, now, env, mimeDb, sharing,
                 shareSeq, allowing>>
  /\ IF \/ ~isAdmin /\ ~canAccessFile(fileId, userId, TRUE)
        \/ isAdmin /\ fileId \notin DOMAIN files
       THEN /\ UNCHANGED deleting
            /\ Return("delete", fileId, userId, "NotFound")
       ELSE /\ deleting' = [deleting EXCEPT ![r] =
                 [pc |-> IF isAdmin THEN "delete" ELSE "select",
                  fileId |-> fileId, userId |-> userId]]
            /\ UNCHANGED <<ret, watch>>

\* SELECT * FROM files WHERE id = $1; rowCount 0: throw `File not found`
deleteFile_select(r) ==
  /\ deleting[r].pc = "select"
  /\ UNCHANGED <<files, fileSeq, blob, objectType, thumbnails, rowLock, jobs, jobSeq,
                 workers, initiate, complete, shares, resolve, now, env, mimeDb, sharing,
                 shareSeq, allowing>>
  /\ IF deleting[r].fileId \notin DOMAIN files
       THEN /\ deleting' = [deleting EXCEPT ![r] = IdleDeleting]
            /\ Return("delete", deleting[r].fileId, deleting[r].userId, "NotFound")
       ELSE /\ deleting' = [deleting EXCEPT ![r].pc = "delete"]
            /\ UNCHANGED <<ret, watch>>

\* DELETE FROM files WHERE id = $1 (it waits for the row lock; on a row
\* that is gone since the SELECT it deletes nothing and succeeds all the
\* same), auditLog FILE_DELETED, return; the object in the store and the
\* jobs in the queue are left alone
deleteFile_delete(r) ==
  /\ deleting[r].pc = "delete"
  /\ canWrite(deleting[r].fileId)
  /\ deleting' = [deleting EXCEPT ![r] = IdleDeleting]
  /\ files' = [f \in DOMAIN files \ {deleting[r].fileId} |-> files[f]]
  /\ shares' = cascadeShares(deleting[r].fileId)
  /\ UNCHANGED <<fileSeq, blob, objectType, thumbnails, rowLock, jobs, jobSeq,
                 workers, initiate, complete, resolve, now, env, mimeDb, sharing,
                 shareSeq, allowing>>
  /\ \E outcome \in AuditOutcomes :
       ReturnAudited("delete", deleting[r].fileId, deleting[r].userId,
                     afterAudit(outcome, "ok"), outcome)

\* ------------------------------------------------------- time
Tick ==
  /\ now < MaxTime
  /\ now' = now + 1
  /\ UNCHANGED <<files, fileSeq, blob, objectType, thumbnails, rowLock, jobs, jobSeq,
                 workers, initiate, complete, shares, resolve, watch, ret,
                 env, mimeDb, sharing, shareSeq, deleting, allowing>>

\* ------------------------------------------------------- specifications
\* the steps of the worker pool
WorkerStep(w) ==
  \/ \E j \in JobIds : worker_take(w, j)
  \/ processFile_start(w)
  \/ processFile_select(w)
  \/ processFile_download(w)
  \/ processFile_dedup(w)
  \/ processFile_dedupCommit(w)
  \/ processFile_dedupAudit(w)
  \/ processFile_scan(w)
  \/ processFile_commit(w)
  \/ processFile_audit(w)
  \/ worker_completed(w)
  \/ processFile_catch(w)
  \/ worker_failed(w)

\* The automated pipeline: one uploader, the queue, the worker pool.
NextAuto ==
  \/ mayInsert(MaxFiles) /\ initiateFileUpload_begin(1, "alice", "a.txt", 50, "text/plain")
  \/ initiateFileUpload_storage(1)
  \/ initiateFileUpload_count(1)
  \/ initiateFileUpload_insert(1)
  \/ \E f \in FileIds, c \in Contents : clientUpload(f, c)
  \/ \E f \in FileIds, u \in {"alice", "bob"} :
        mayEnqueue(MaxJobs) /\ completeFileUpload_select(1, f, u)
  \/ completeFileUpload_update(1)
  \/ completeFileUpload_add(1)
  \/ completeFileUpload_commit(1)
  \/ \E w \in WorkerIds : WorkerStep(w)

SpecAuto == Init /\ [][NextAuto]_vars

\* The pipeline with an administrator at work beside it.
Next ==
  \/ NextAuto
  \/ \E f \in FileIds : adminFileActionHandler_getFile(1, f)
  \/ adminFileActionHandler_allow(1)

Spec == Init /\ [][Next]_vars

\* ---- a database the pipeline has worked on before the API calls observed
\* How far the pipeline took an earlier upload of alice, and its content.
Seeds ==
  {<<"pending", NULL>>, <<"rejected", NULL>>}
    \cup ({"uploaded", "scanning", "processed"} \X Contents)

seedNew == newFileRow("alice", "a.txt", 50)

\* the row the pipeline leaves for a seed (scanned_at is the clock at Init)
seedRow(sd) ==
  CASE sd[1] \in {"pending", "uploaded"} -> seedNew
    [] sd[1] = "scanning" -> markScanning(seedNew)
    [] sd[1] = "processed" ->
         resultRow(markScanning(seedNew), sha256Of(sd[2]),
                   detectMime(sd[2], "a.txt"),
                   classify(scanBuffer(sd[2]), detectMime(sd[2], "a.txt")))
    [] sd[1] = "rejected" ->
         rejectedRow(markScanning(seedNew), "Failed to download file from storage")

\* a job was added for the seed's file
seedHadJob(sd) == sd[1] \in {"scanning", "processed", "rejected"}

\* the job still in the queue: waiting for a worker, or failed three times
seedJob(f, sd) ==
  IF sd[1] = "scanning" THEN newJob(f)
  ELSE [fileId |-> f, attemptsMade |-> attempts, state |-> "failed",
        finishedOn |-> f]

\* n earlier uploads, taken as far as sds says; the worker process is not
\* running when the observed calls are made.  An image processed and found
\* clean has its derivative in the store, unless sharp or the upload of the
\* derivative failed in that attempt.
InitRowsTyped(ops, n, sds, rows, types) ==
  LET had == {f \in 1 .. n : seedHadJob(sds[f])}
      jobId(f) == Cardinality({g \in had : g <= f})
      kept == {f \in had : sds[f][1] # "processed"}
      derived == {f \in 1 .. n : /\ sds[f][1] = "processed"
                                 /\ wantsThumbnail(rows[f].status,
                                                   rows[f].detected_mime)}
  IN
  /\ watch = ops
  /\ now = 1
  /\ files = rows
  /\ fileSeq = n
  /\ blob = [f \in FileIds |-> IF f <= n THEN sds[f][2] ELSE NULL]
  /\ objectType = [f \in FileIds |-> IF f <= n THEN types[f] ELSE NULL]
  /\ thumbnails = derived
  /\ rowLock = [f \in FileIds |-> 0]
  /\ jobs = [j \in {jobId(f) : f \in kept} |->
               seedJob(CHOOSE f \in kept : jobId(f) = j,
                       sds[CHOOSE f \in kept : jobId(f) = j])]
  /\ jobSeq = Cardinality(had)
  /\ workers = [w \in WorkerIds |-> IdleWorker]
  /\ initiate = [r \in ReqIds |-> IdleInitiate]
  /\ complete = [r \in ReqIds |-> IdleComplete]
  /\ shares = <<>>
  /\ InitCalls
  /\ resolve = [r \in ReqIds |-> IdleResolve]
  /\ ret = NoRet

\* the earlier uploads were declared as plain text
InitRows(ops, n, sds, rows) ==
  InitRowsTyped(ops, n, sds, rows, [f \in 1 .. n |-> "text/plain"])

InitSeeded(ops, n, sds) == InitRows(ops, n, sds, [f \in 1 .. n |-> seedRow(sds[f])])

\* the ways to take n earlier uploads out of the kinds listed: file ids are
\* random UUIDs and nothing depends on their order, so of the layouts that
\* differ only in the numbering of the files one is taken
Layouts(n, kinds) ==
  {ix \in [1 .. n -> 1 .. Len(kinds)] : \A f \in 1 .. (n - 1) : ix[f] <= ix[f + 1]}

\* the members of a set, one after the other
RECURSIVE listOf(_)
listOf(S) ==
  IF S = {} THEN <<>>
  ELSE LET x == CHOOSE y \in S : TRUE IN <<x>> \o listOf(S \ {x})

\* the API process at work on the earlier uploads; none of its steps reads
\* the flag, which is left as the repository has it
InitApi(ops, seeds) ==
  /\ env = NULL
  /\ mimeDb = TxtTable
  /\ \E n \in 0 .. FewFiles : \E ix \in Layouts(n, listOf(seeds)) :
       InitSeeded(ops, n, [f \in 1 .. n |-> listOf(seeds)[ix[f]]])

\* Completion and the override as their callers see them.
NextApi ==
  \/ \E f \in 1 .. FewFiles, u \in {"alice", "bob"} :
        mayEnqueue(FewFiles + MaxJobs) /\ completeFileUpload_select(1, f, u)
  \/ completeFileUpload_update(1)
  \/ completeFileUpload_add(1)
  \/ completeFileUpload_commit(1)
  \/ \E f \in 1 .. FewFiles : adminFileActionHandler_getFile(1, f)
  \/ adminFileActionHandler_allow(1)

SpecApi == InitApi({"complete"}, Seeds) /\ [][NextApi]_vars

\* Downloads by the owner and by another user, of files in any status, with
\* and without a share on the file, live or expired.
NextDownload ==
  \/ \E f \in 1 .. FewFiles, u \in {"alice", "bob"} : generateFileDownloadUrl(f, u)
  \/ \E f \in 1 .. FewFiles :
        mayShare /\ createFileShare_access(1, f, "alice", 1, FALSE)
  \/ createFileShare_file(1)
  \/ createFileShare_insert(1)
  \/ \E f \in 1 .. FewFiles :
        mayEnqueue(FewFiles + 1) /\ completeFileUpload_select(1, f, "alice")
  \/ completeFileUpload_update(1)
  \/ completeFileUpload_add(1)
  \/ completeFileUpload_commit(1)
  \/ Tick

\* earlier uploads, one in each status
DownloadSeeds ==
  {<<"pending", NULL>>, <<"rejected", NULL>>, <<"scanning", "pngBytes">>,
   <<"processed", "pngBytes">>, <<"processed", "eicarBytes">>}

SpecDownload == InitApi({"download"}, DownloadSeeds) /\ [][NextDownload]_vars

\* The override as the administrator sees it, on files in every status,
\* while the owner completes the upload or deletes the file.
NextAdmin ==
  \/ NextApi
  \/ \E f \in 1 .. FewFiles : deleteFile_access(1, f, "alice", FALSE)
  \/ deleteFile_select(1)
  \/ deleteFile_delete(1)

SpecAdmin == InitApi({"allow"}, DownloadSeeds) /\ [][NextAdmin]_vars

\* Share tokens: issuing, two concurrent resolutions, expiry.
NextShare ==
  \/ \E f \in 1 .. FewFiles, u \in Users, oneTimeUse \in BOOLEAN :
        mayShare /\ createFileShare_access(1, f, u, 1, oneTimeUse)
  \/ createFileShare_file(1)
  \/ createFileShare_insert(1)
  \/ \E r \in ReqIds, t \in Tokens : getFileByShareToken_select(r, t)
  \/ \E r \in ReqIds : getFileByShareToken_file(r)
  \/ \E r \in ReqIds : getFileByShareToken_update(r)
  \/ \E f \in 1 .. FewFiles : adminFileActionHandler_getFile(1, f)
  \/ adminFileActionHandler_allow(1)
  \/ Tick

\* earlier uploads still scanning, found clean, or quarantined
ShareSeeds ==
  {<<"scanning", "pngBytes">>, <<"processed", "pngBytes">>,
   <<"processed", "eicarBytes">>}

SpecShare == InitApi({"createShare", "resolve"}, ShareSeeds) /\ [][NextShare]_vars

\* A share issued while the owner completes the upload again, and while the
\* owner and the administrator delete the file.
NextShareRace ==
  \/ \E f \in 1 .. FewFiles :
        mayShare /\ createFileShare_access(1, f, "alice", 1, FALSE)
  \/ createFileShare_file(1)
  \/ createFileShare_insert(1)
  \/ \E f \in 1 .. FewFiles :
        mayEnqueue(FewFiles + 1) /\ completeFileUpload_select(1, f, "alice")
  \/ completeFileUpload_update(1)
  \/ completeFileUpload_add(1)
  \/ completeFileUpload_commit(1)
  \/ \E f \in 1 .. FewFiles : deleteFile_access(1, f, "alice", FALSE)
  \/ \E f \in 1 .. FewFiles : deleteFile_access(2, f, "root", TRUE)
  \/ \E r \in ReqIds : deleteFile_select(r)
  \/ \E r \in ReqIds : deleteFile_delete(r)

SpecShareRace ==
  InitApi({"createShare", "delete"}, ShareSeeds) /\ [][NextShareRace]_vars

\* The worker pool at work on uploads already completed: files waiting to be
\* scanned (a clean image, an infected executable) beside a clean image
\* processed earlier.
PoolSeeds ==
  <<<<"scanning", "pngBytes">>, <<"scanning", "eicarExeBytes">>,
    <<"processed", "pngBytes">>>>

InitPool(ops, envs, kinds) ==
  /\ env \in envs
  /\ mimeDb = TxtTable
  /\ \E n \in 1 .. MaxFiles : \E ix \in Layouts(n, kinds) :
       InitSeeded(ops, n, [f \in 1 .. n |-> kinds[ix[f]]])

NextPool == \E w \in WorkerIds : WorkerStep(w)

\* a deployment with ENABLE_FILE_DEDUPLICATION=true
SpecPool == InitPool({}, {"true"}, PoolSeeds) /\ [][NextPool]_vars

\* The worker pool at work on infected uploads, an executable and an image,
\* beside a clean image.
InfectedSeeds ==
  <<<<"scanning", "eicarExeBytes">>, <<"scanning", "eicarPngBytes">>,
    <<"scanning", "pngBytes">>>>

SpecInfected == InitPool({}, {"true"}, InfectedSeeds) /\ [][NextPool]_vars

\* The worker pool at work on images waiting to be scanned, while the client
\* goes on using the upload URL of file 1: its object is replaced, by an
\* infected image or by the image again, before, during and after the
\* attempts.
ReplaceSeeds == <<<<"scanning", "pngBytes">>>>

ReplaceContents == {"pngBytes", "eicarPngBytes"}

NextReplace ==
  \/ \E w \in WorkerIds : WorkerStep(w)
  \/ \E c \in ReplaceContents : clientUpload(1, c)

SpecReplace == InitPool({}, {"true"}, ReplaceSeeds) /\ [][NextReplace]_vars

\* The worker pool and the administrator: an infected upload waiting to be
\* scanned beside an upload of the same bytes that was quarantined earlier.
OverrideSeeds ==
  <<<<"scanning", "eicarBytes">>, <<"processed", "eicarBytes">>>>

NextOverride ==
  \/ \E w \in WorkerIds : WorkerStep(w)
  \/ \E f \in FileIds : adminFileActionHandler_getFile(1, f)
  \/ adminFileActionHandler_allow(1)

SpecOverride == InitPool({}, {"true"}, OverrideSeeds) /\ [][NextOverride]_vars

\* The worker pool at work on uploads the scanner finds clean: an executable
\* and an image known by their first bytes, and a file without magic bytes
\* whose type is what the lookup answers for its name: any answer is taken.
ClassifySeeds ==
  <<<<"exeBytes", "a.txt">>, <<"pngBytes", "a.txt">>, <<"txtBytes", "a.dat">>>>

InitClassify(seeds, answers) ==
  /\ env = "true"
  /\ \E n \in 1 .. MaxFiles : \E ix \in Layouts(n, seeds) :
       LET cs == [f \in 1 .. n |-> seeds[ix[f]]] IN
       /\ mimeDb \in LookupTables({cs[f][2] : f \in 1 .. n}, answers)
       /\ InitRows({}, n, [f \in 1 .. n |-> <<"scanning", cs[f][1]>>],
                   [f \in 1 .. n |->
                      [seedRow(<<"scanning", cs[f][1]>>)
                         EXCEPT !.original_name = cs[f][2]]])

SpecClassify == InitClassify(ClassifySeeds, LookupAnswers) /\ [][NextPool]_vars

\* The worker pool at work on an image known by its first bytes and on an
\* SVG document, which has no magic bytes: the lookup finds no type for its
\* name, or an image type, or image/svg+xml.
ThumbnailSeeds == <<<<"pngBytes", "a.txt">>, <<"svgBytes", "a.svg">>>>

ThumbnailAnswers == {NULL, "image/webp", "image/svg+xml"}

SpecThumbnail ==
  InitClassify(ThumbnailSeeds, ThumbnailAnswers) /\ [][NextPool]_vars

\* Every audited operation, observed: admission, completion, shares,
\* downloads and the worker pool.  File 1 is an earlier upload of alice,
\* pending, waiting to be scanned or found clean; the files after it are
\* clean texts processed earlier.
AuditedOps ==
  {"initiate", "complete", "createShare", "resolve", "download", "processFile"}

AuditSeeds ==
  {<<"pending", NULL>>, <<"scanning", "txtBytes">>, <<"scanning", "eicarBytes">>,
   <<"processed", "txtBytes">>}

InitAudit ==
  /\ env \in EnvValues
  /\ mimeDb = TxtTable
  /\ \E n \in 1 .. MaxFiles, sd \in AuditSeeds :
       InitSeeded(AuditedOps, n,
                  [f \in 1 .. n |-> IF f = 1 THEN sd ELSE <<"processed", "txtBytes">>])

\* no API call is under way
noCallInFlight ==
  /\ \A r \in ReqIds : initiate[r].pc = "idle"
  /\ \A r \in ReqIds : complete[r].pc = "idle"
  /\ \A r \in ReqIds : resolve[r].pc = "idle"
  /\ \A r \in ReqIds : sharing[r].pc = "idle"

\* no processing attempt is under way
poolAtRest == \A w \in WorkerIds : workers[w].pc = "idle"

\* a client at work on file 1 beside the worker pool: the API process serves
\* its calls while attempts run, and the pool takes a waiting job whenever
\* a slot is free
NextAudit ==
  \/ mayInsert(MaxFiles)
       /\ initiateFileUpload_begin(1, "alice", "a.txt", 50, "text/plain")
  \/ initiateFileUpload_storage(1)
  \/ initiateFileUpload_count(1)
  \/ initiateFileUpload_insert(1)
  \/ mayEnqueue(FewFiles) /\ completeFileUpload_select(1, 1, "alice")
  \/ completeFileUpload_update(1)
  \/ completeFileUpload_add(1)
  \/ completeFileUpload_commit(1)
  \/ \E oneTimeUse \in BOOLEAN :
        mayShare /\ createFileShare_access(1, 1, "alice", 1, oneTimeUse)
  \/ createFileShare_file(1)
  \/ createFileShare_insert(1)
  \/ \E t \in ShareIds : getFileByShareToken_select(1, t)
  \/ getFileByShareToken_file(1)
  \/ getFileByShareToken_update(1)
  \/ generateFileDownloadUrl(1, "alice")
  \/ \E w \in WorkerIds : WorkerStep(w)

SpecAudit == InitAudit /\ [][NextAudit]_vars

\* The worker pool at work while the owner deletes files whose jobs are
\* still in the queue.
NextOrphan ==
  \/ \E w \in WorkerIds : WorkerStep(w)
  \/ \E f \in FileIds : deleteFile_access(1, f, "alice", FALSE)
  \/ deleteFile_select(1)
  \/ deleteFile_delete(1)

SpecOrphan == InitPool({}, EnvValues, PoolSeeds) /\ [][NextOrphan]_vars

\* The worker pool with a blob store that may stop answering.  Every step
\* that can be taken is taken in the end.
NextHang ==
  \/ \E w \in WorkerIds : WorkerStep(w)
  \/ \E w \in WorkerIds : processFile_downloadHangs(w)
  \/ \E w \in WorkerIds : processFile_scanHangs(w)

SpecHang == InitPool({}, EnvValues, PoolSeeds) /\ [][NextHang]_vars /\ WF_vars(NextHang)

\* The worker pool at work on uploads whose declared contentType differs
\* from their bytes: an executable declared as an image or as what it is, an
\* image declared as an executable.
DeclaredSeeds ==
  <<<<"exeBytes", "image/png">>, <<"exeBytes", "application/x-msdownload">>,
    <<"pngBytes", "application/x-msdownload">>>>

InitDeclared ==
  /\ env = "true"
  /\ mimeDb = TxtTable
  /\ \E n \in 1 .. MaxFiles : \E ix \in Layouts(n, DeclaredSeeds) :
       LET ds == [f \in 1 .. n |-> DeclaredSeeds[ix[f]]] IN
       InitRowsTyped({}, n, [f \in 1 .. n |-> <<"scanning", ds[f][1]>>],
                     [f \in 1 .. n |-> seedRow(<<"scanning", ds[f][1]>>)],
                     [f \in 1 .. n |-> ds[f][2]])

SpecDeclared == InitDeclared /\ [][NextPool]_vars

\* The failed set of the queue.  Up to removeOnFail jobs failed earlier, for
\* files since deleted (DELETE FROM files leaves the queue alone); file 1
\* waits to be scanned, file 2 was processed earlier and holds the same
\* bytes or others.
deletedFile == 0

oldFailedJob(k) ==
  [fileId |-> deletedFile, attemptsMade |-> attempts, state |-> "failed",
   finishedOn |-> k]

InitDeadLetter ==
  \E n \in 0 .. removeOnFail, other \in {"pngBytes", "eicarBytes"} :
    /\ watch = {}
    /\ env \in EnvValues
    /\ mimeDb = TxtTable
    /\ now = 1
    /\ files = <<seedRow(<<"scanning", "pngBytes">>),
                 seedRow(<<"processed", other>>)>>
    /\ fileSeq = 2
    /\ blob = [f \in FileIds |->
                 IF f = 1 THEN "pngBytes" ELSE IF f = 2 THEN other ELSE NULL]
    /\ objectType = [f \in FileIds |-> IF f <= 2 THEN "text/plain" ELSE NULL]
    /\ thumbnails = IF other = "pngBytes" THEN {2} ELSE {}
    /\ rowLock = [f \in FileIds |-> 0]
    /\ jobs = [k \in 1 .. n + 1 |-> IF k <= n THEN oldFailedJob(k) ELSE newJob(1)]
    /\ jobSeq = n + 2
    /\ workers = [w \in WorkerIds |-> IdleWorker]
    /\ initiate = [r \in ReqIds |-> IdleInitiate]
    /\ complete = [r \in ReqIds |-> IdleComplete]
    /\ shares = <<>>
    /\ InitCalls
    /\ resolve = [r \in ReqIds |-> IdleResolve]
    /\ ret = NoRet

NextDeadLetter ==
  \E w \in WorkerIds :
    \/ \E j \in 1 .. removeOnFail + 1 : worker_take(w, j)
    \/ processFile_start(w)
    \/ processFile_select(w)
    \/ processFile_download(w)
    \/ processFile_dedup(w)
    \/ processFile_dedupCommit(w)
    \/ processFile_dedupAudit(w)
    \/ processFile_scan(w)
    \/ processFile_commit(w)
    \/ processFile_audit(w)
    \/ worker_completed(w)
    \/ processFile_catch(w)
    \/ worker_failed(w)

SpecDeadLetter == InitDeadLetter /\ [][NextDeadLetter]_vars

\* Admission of new uploads against the quotas.  Earlier uploads of either
\* user, of a small or a large size, in any status.
SeedSizes == {50, 900}

DeclaredSizes == {50, 100, 200, maxFileSize, maxFileSize + 1}

InitQuota(ops) ==
  /\ env = NULL
  /\ mimeDb = TxtTable
  /\ \E n \in 0 .. FewFiles :
       \E sds \in [1 .. n -> DownloadSeeds], szs \in [1 .. n -> SeedSizes],
          own \in [1 .. n -> {"alice", "bob"}] :
         InitRows(ops, n, sds,
                  [f \in 1 .. n |-> [seedRow(sds[f]) EXCEPT !.size_bytes = szs[f],
                                                            !.owner_id = own[f]]])

NextInitiate ==
  \/ \E u \in {"alice", "bob"}, sz \in DeclaredSizes :
        mayInsert(MaxFiles) /\ initiateFileUpload_begin(1, u, "a.txt", sz, "text/plain")
  \/ initiateFileUpload_storage(1)
  \/ initiateFileUpload_count(1)
  \/ initiateFileUpload_insert(1)
  \/ \E f \in FileIds : adminFileActionHandler_getFile(1, f)
  \/ adminFileActionHandler_allow(1)

SpecInitiate == InitQuota({"initiate"}) /\ [][NextInitiate]_vars

\* Two admissions of one user under way at the same time, and nothing else;
\* two uploads of the larger size do not fit the storage quota together.
RaceSizes == {100, 600}

NextRace ==
  \/ \E r \in ReqIds, sz \in RaceSizes :
        mayInsert(MaxFiles) /\ initiateFileUpload_begin(r, "alice", "a.txt", sz, "text/plain")
  \/ \E r \in ReqIds : initiateFileUpload_storage(r)
  \/ \E r \in ReqIds : initiateFileUpload_count(r)
  \/ \E r \in ReqIds : initiateFileUpload_insert(r)

SpecRace == InitWatching({"initiate"}) /\ [][NextRace]_vars

\* Two completions of one upload under way at the same time, and nothing
\* else: alice's file is pending, its bytes uploaded or not.
CompleteSeeds == {<<"pending", NULL>>, <<"uploaded", "pngBytes">>}

NextCompleteRace ==
  \/ \E r \in ReqIds, f \in 1 .. FewFiles, u \in {"alice", "bob"} :
        mayEnqueue(MaxJobs) /\ completeFileUpload_select(r, f, u)
  \/ \E r \in ReqIds : completeFileUpload_update(r)
  \/ \E r \in ReqIds : completeFileUpload_add(r)
  \/ \E r \in ReqIds : completeFileUpload_commit(r)

SpecCompleteRace == InitApi({"complete"}, CompleteSeeds) /\ [][NextCompleteRace]_vars

\* Share tokens resolved while the owner completes the shared upload again
\* (which sets it back to scanning) and the administrator allows it.
NextResolve ==
  \/ \E f \in 1 .. FewFiles, oneTimeUse \in BOOLEAN :
        mayShare /\ createFileShare_access(1, f, "alice", 1, oneTimeUse)
  \/ createFileShare_file(1)
  \/ createFileShare_insert(1)
  \/ \E t \in Tokens : getFileByShareToken_select(1, t)
  \/ getFileByShareToken_file(1)
  \/ getFileByShareToken_update(1)
  \/ \E f \in 1 .. FewFiles :
        mayEnqueue(FewFiles + 1) /\ completeFileUpload_select(1, f, "alice")
  \/ completeFileUpload_update(1)
  \/ completeFileUpload_add(1)
  \/ completeFileUpload_commit(1)
  \/ \E f \in 1 .. FewFiles : adminFileActionHandler_getFile(1, f)
  \/ adminFileActionHandler_allow(1)
  \/ Tick

\* earlier uploads found clean or quarantined
ResolveSeeds == {<<"processed", "pngBytes">>, <<"processed", "eicarBytes">>}

SpecResolve == InitApi({"resolve"}, ResolveSeeds) /\ [][NextResolve]_vars

\* Completion and processing to the end.  File 1 is an upload of alice not
\* yet completed (an image, an infected file, or nothing uploaded at all);
\* the files after it are clean images processed earlier.  Alice completes
\* file 1, possibly twice.  The store and the scanner answer every call.
FairSeeds ==
  {<<"pending", NULL>>, <<"uploaded", "pngBytes">>, <<"uploaded", "eicarBytes">>}

InitFair ==
  /\ env \in EnvValues
  /\ mimeDb = TxtTable
  /\ \E n \in 1 .. MaxFiles, sd \in FairSeeds :
       InitSeeded({}, n,
                  [f \in 1 .. n |-> IF f = 1 THEN sd ELSE <<"processed", "pngBytes">>])

NextFair ==
  \/ mayEnqueue(MaxJobs) /\ completeFileUpload_select(1, 1, "alice")
  \/ completeFileUpload_update(1)
  \/ completeFileUpload_add(1)
  \/ completeFileUpload_commit(1)
  \/ \E w \in WorkerIds : WorkerStep(w)

\* the server carries on a completion it has begun
completeCarriesOn ==
  \/ completeFileUpload_update(1)
  \/ completeFileUpload_add(1)
  \/ completeFileUpload_commit(1)

\* Every completion begun is carried on, and every worker slot takes a step
\* it can take again and again: a statement that waits for a row lock gets
\* the lock when the transaction that holds it ends.
SpecFair ==
  /\ InitFair
  /\ [][NextFair]_vars
  /\ WF_vars(completeCarriesOn)
  /\ \A w \in WorkerIds : SF_vars(WorkerStep(w))

\* ======================================================= claims
isProcessingError(row) ==
  /\ row.status = "rejected"
  /\ Len(row.reason) > 0
  /\ row.reason[1] = "Processing error: "

\* the status changes the lifecycle allows
LifecycleStep(a, b) ==
  \/ a = b
  \/ a = "pending" /\ b = "scanning"
  \/ a = "scanning" /\ b \in Terminal

\* C1: apart from the administrator's override, every step changes a file's
\* status only along pending -> scanning -> {clean, quarantined, rejected}:
\* nothing re-enters pending or scanning, nothing overwrites a terminal
\* status.
C1_LifecycleOnly ==
  [][(\E r \in ReqIds : adminFileActionHandler_allow(r))
     \/ \A f \in DOMAIN files :
          f \in DOMAIN files' => LifecycleStep(files[f].status, files'[f].status)]_vars

\* C2: a processFile run that starts on a file in a terminal status leaves
\* the row as it is and ends at once, without going on to the download.
C2_TerminalNoOp ==
  [][\A w \in WorkerIds :
       (/\ workers[w].pc = "start"
        /\ workers'[w].pc # "start"
        /\ fileOf(w) \in DOMAIN files
        /\ files[fileOf(w)].status \in Terminal)
       => (/\ files'[fileOf(w)] = files[fileOf(w)]
           /\ workers'[w].pc = "idle")]_vars

\* C4: a file shows status rejected with a "Processing error" reason only
\* when a job for it has used up its attempts.
C4_RejectedOnlyWhenExhausted ==
  \A f \in DOMAIN files :
    isProcessingError(files[f]) =>
      \E j \in DOMAIN jobs : jobs[j].fileId = f /\ jobs[j].state = "failed"

\* C3: generateFileDownloadUrl returns a URL only for a file whose status is
\* clean; for any caller, a file in pending, scanning, quarantined or rejected
\* gets no URL.
C3_UrlOnlyWhenClean ==
  ret.op = "download" =>
    /\ ret.result = "url" => ret.was.status = "clean"
    /\ ret.was.status \in Statuses \ {"clean"} =>
         ret.result \in {"NotFound", "InvalidState"}
    /\ ret.is = ret.was

\* a user who is not the owner asked for a URL of a shared file that is
\* scanning again, and was refused
C3_Witness ==
  /\ ret.op = "download"
  /\ ret.user = "bob"
  /\ ret.was.status = "scanning"
  /\ ret.was.shares > 0
  /\ ret.result = "InvalidState"

\* C5: a completeFileUpload call that fails because the enqueue fails leaves
\* the file and the queue as they were: a pending file is still pending and
\* the call has added no job for it.
C5_EnqueueFailureRollsBack ==
  (ret.op = "complete" /\ ret.result = "EnqueueFailed") =>
    /\ ret.is.status = ret.was.status
    /\ ret.is.jobs = ret.was.jobs

\* the enqueue failed on a pending file that has no job
C5_Witness ==
  /\ ret.op = "complete"
  /\ ret.result = "EnqueueFailed"
  /\ ret.was.status = "pending"
  /\ ret.was.jobs = 0
  /\ ret.is.status = "pending"
  /\ ret.is.jobs = 0

\* C6: a job for a file exists only if the flip of that file out of pending
\* was committed: once no completeFileUpload call is at work on the file, a
\* file that has a job is not pending.
C6_JobOnlyIfCommitted ==
  \A j \in DOMAIN jobs :
    (\A r \in ReqIds :
       complete[r].pc = "idle" \/ complete[r].fileId # jobs[j].fileId)
    => statusOf(jobs[j].fileId) # "pending"

\* C7: completeFileUpload succeeds only on a file that exists, is owned by
\* the caller and is pending; otherwise it fails NotFound and changes
\* nothing.
C7_CompleteOnlyPending ==
  ret.op = "complete" =>
    /\ ret.result = "ok" => ret.was.status = "pending"
    /\ (ret.was.status # "pending" \/ ret.user # "alice") =>
         ret.result = "NotFound" /\ ret.is = ret.was

\* C8: a one-time token is resolved successfully at most once: no successful
\* resolution returns for a token that another resolution has consumed.
C8_OneTimeAtMostOnce ==
  (ret.op = "resolve" /\ ret.result = "file") => ret.was.state # "consumed"

\* the validity of a share link as the specification states it
validShare(t) ==
  /\ t \in DOMAIN shares
  /\ now < shares[t].expires_at
  /\ (~shares[t].one_time_use \/ shares[t].used_at = 0)

C9_NotFoundOnlyIfInvalid ==
  (ret.op = "resolve" /\ ret.result = "NotFound") =>
    (ret.was.state # "valid" \/ ret.was.file # "clean")

C9_SuccessEffect ==
  (ret.op = "resolve" /\ ret.result = "file") =>
    /\ ret.id \in DOMAIN shares
    /\ IF shares[ret.id].one_time_use
         THEN ret.is.state # "valid"
         ELSE ret.is = ret.was

\* C9: the share lookup of a resolution lets a token through only if the
\* share exists, now < expiresAt, and it is not a one-time share already
\* used; it answers NotFound only for a token that is unknown, expired or
\* consumed (or whose file is not clean); a successful resolution leaves a
\* share that is not one-time as it was, so it resolves again until expiry,
\* and leaves a one-time share no longer valid.
C9_ResolveOnlyValid ==
  /\ [][\A r \in ReqIds :
         (resolve[r].pc = "idle" /\ resolve'[r].pc = "file")
         => validShare(resolve'[r].token)]_vars
  /\ [](C9_NotFoundOnlyIfInvalid /\ C9_SuccessEffect)

\* a one-time token consumed by an earlier resolution was refused
C9_Witness ==
  /\ ret.op = "resolve"
  /\ ret.result = "NotFound"
  /\ ret.was.state = "consumed"
  /\ ret.was.file = "clean"

\* C10: createShare creates a row only for a file that is clean at that
\* moment, fails InvalidState for the owner's file in any other status, and
\* a failed call creates no row; every share row refers to a file that is
\* clean when the row is inserted.
C10_ShareOnlyClean ==
  /\ [](ret.op = "createShare" =>
         /\ ret.result = "ok" =>
              ret.was.status = "clean" /\ ret.is.shares = ret.was.shares + 1
         /\ ret.result # "ok" => ret.is.shares = ret.was.shares
         /\ (ret.user = "alice" /\ ret.was.status \in Statuses \ {"clean"})
              => ret.result = "InvalidState")
  /\ [][\A t \in DOMAIN shares' \ DOMAIN shares :
         statusOf(shares'[t].file_id) = "clean"]_vars

\* C11: createShare is refused, and creates no row, for a caller who neither
\* owns the file nor is an administrator; on a clean file it succeeds for
\* the owner and for an administrator who does not own the file.
C11_ShareOwnerOrAdmin ==
  ret.op = "createShare" =>
    /\ ret.user = "bob" =>
         ret.result = "NotFound" /\ ret.is.shares = ret.was.shares
    /\ (ret.user \in {"alice", "root"} /\ ret.was.status = "clean") =>
         ret.result = "ok"

\* the statuses that count against the quotas, as the specification lists them
countsAgainstQuota(st) == st \in {"pending", "scanning", "clean", "quarantined"}

activeFiles(tbl, u) ==
  {f \in DOMAIN tbl : tbl[f].owner_id = u /\ countsAgainstQuota(tbl[f].status)}

RECURSIVE sizeSum(_, _)
sizeSum(tbl, S) ==
  IF S = {} THEN 0
  ELSE LET f == CHOOSE x \in S : TRUE
       IN tbl[f].size_bytes + sizeSum(tbl, S \ {f})

used(tbl, u) == sizeSum(tbl, activeFiles(tbl, u))

activeFileCount(tbl, u) == Cardinality(activeFiles(tbl, u))

overStorage(tbl, u, declaredSize) ==
  used(tbl, u) + declaredSize > users[u].storage_quota_bytes

overFiles(tbl, u) == activeFileCount(tbl, u) + 1 > users[u].files_quota

C12_StorageStep ==
  \A r \in ReqIds :
    (initiate[r].pc = "storage" /\ initiate'[r].pc # "storage") =>
      /\ initiate'[r].pc \in {"idle", "count"}
      /\ initiate'[r].pc = "idle"
           <=> overStorage(files, initiate[r].userId, initiate[r].fileSize)

C12_DeniedOnlyWhenOver ==
  (ret.op = "initiate" /\ ret.result = "QuotaExceeded"
     /\ ~overFiles(ret.was.files, ret.user))
  => overStorage(ret.was.files, ret.user, ret.id)

\* C12: the storage check of initiate denies exactly when used + declaredSize
\* > storageQuota, used being the sum of the sizes of the caller's files that
\* are pending, scanning, clean or quarantined; a QuotaExceeded not due to
\* the files quota is due to this.
C12_StorageQuota == [][C12_StorageStep]_vars /\ []C12_DeniedOnlyWhenOver

\* with 900 of 1000 used, a declared size of 200 was denied
C12_Witness ==
  /\ ret.op = "initiate"
  /\ ret.result = "QuotaExceeded"
  /\ ret.id = 200
  /\ used(ret.was.files, ret.user) = 900
  /\ users[ret.user].storage_quota_bytes = 1000

C13_CountStep ==
  \A r \in ReqIds :
    (initiate[r].pc = "count" /\ initiate'[r].pc # "count") =>
      /\ initiate'[r].pc \in {"idle", "insert"}
      /\ initiate'[r].pc = "idle" <=> overFiles(files, initiate[r].userId)

C13_DeniedOnlyWhenOver ==
  (ret.op = "initiate" /\ ret.result = "QuotaExceeded"
     /\ ~overStorage(ret.was.files, ret.user, ret.id))
  => overFiles(ret.was.files, ret.user)

\* C13: the files check of initiate denies exactly when activeFileCount + 1
\* > filesQuota, activeFileCount being the number of the caller's files that
\* are not rejected; a QuotaExceeded not due to storage is due to this.
C13_FilesQuota == [][C13_CountStep]_vars /\ []C13_DeniedOnlyWhenOver

\* a user at the files quota, with storage to spare, was denied
C13_Witness ==
  /\ ret.op = "initiate"
  /\ ret.result = "QuotaExceeded"
  /\ ~overStorage(ret.was.files, ret.user, ret.id)
  /\ activeFileCount(ret.was.files, ret.user) = users[ret.user].files_quota

\* C14: an initiate that fails, PayloadTooLarge for a declared size above
\* the global maximum or QuotaExceeded, returns the failure to its caller and
\* leaves the tables as they were: no File row, no blob, no job.
C14_FailedInitiateNoEffect ==
  ret.op = "initiate" =>
    /\ ret.result \in {"PayloadTooLarge", "QuotaExceeded", "ok"}
    /\ ret.result = "PayloadTooLarge" <=> ret.id > maxFileSize
    /\ ret.result # "ok" => ret.is = ret.was

\* a too large upload was refused while another file existed
C14_Witness ==
  /\ ret.op = "initiate"
  /\ ret.result = "PayloadTooLarge"
  /\ ret.was.files # <<>>
  /\ ret.is = ret.was

\* C15: a successful initiate adds exactly one File row, owned by the caller,
\* of the declared size, pending; every other row, the blobs and the queue
\* are as before.
C15_InitiateCreatesOneRow ==
  (ret.op = "initiate" /\ ret.result = "ok") =>
    /\ \E f \in DOMAIN ret.is.files \ DOMAIN ret.was.files :
         /\ DOMAIN ret.is.files = DOMAIN ret.was.files \cup {f}
         /\ ret.is.files[f].owner_id = ret.user
         /\ ret.is.files[f].size_bytes = ret.id
         /\ ret.is.files[f].status = "pending"
    /\ \A g \in DOMAIN ret.was.files : ret.is.files[g] = ret.was.files[g]
    /\ ret.is.jobs = ret.was.jobs
    /\ ret.is.blob = ret.was.blob

\* an upload was admitted beside an earlier file
C15_Witness ==
  /\ ret.op = "initiate"
  /\ ret.result = "ok"
  /\ ret.was.files # <<>>
  /\ Cardinality(DOMAIN ret.is.files) = Cardinality(DOMAIN ret.was.files) + 1

\* a different file with the same content hash is clean
cleanTwin(f, sha) ==
  \E d \in DOMAIN files :
    d # f /\ files[d].sha256 = sha /\ files[d].status = "clean"

\* how an attempt that has written its result ends: its auditLog and the
\* return of processFile change neither the row nor the queue, and the
\* queue then removes the job
attemptCompletes ==
  \A w \in WorkerIds :
    /\ (workers[w].pc \in {"audit", "dedupAudit"}
          /\ workers'[w].pc # workers[w].pc) =>
         /\ workers'[w].pc = "returned"
         /\ files' = files
         /\ thumbnails' = thumbnails
         /\ jobs' = jobs
    /\ (workers[w].pc = "returned" /\ workers'[w].pc # "returned") =>
         /\ workers'[w].pc = "idle"
         /\ files' = files
         /\ workers[w].job \notin DOMAIN jobs'

C16_DedupStep ==
  \A w \in WorkerIds :
    (/\ enableFileDeduplication
     /\ workers[w].pc = "dedup"
     /\ workers'[w].pc # "dedup") =>
      /\ workers'[w].pc \in {"dedupCommit", "scan"}
      /\ workers'[w].pc = "dedupCommit"
           <=> cleanTwin(fileOf(w), sha256Of(workers[w].buf))

C16_ShortcutStep ==
  \A w \in WorkerIds :
    (workers[w].pc = "dedupCommit" /\ workers'[w].pc # "dedupCommit") =>
      /\ workers'[w].pc = "dedupAudit"
      /\ files'[fileOf(w)].status = "clean"
      /\ files'[fileOf(w)].sha256 = sha256Of(workers[w].buf)
      /\ thumbnails' = thumbnails

\* C16: with deduplication enabled, processing takes the shortcut exactly
\* when a different file with the same content hash is clean; the shortcut
\* sets the file clean with its hash, ends the attempt without the scanner
\* and generates no derivative.
C16_DedupShortcut == [][C16_DedupStep /\ C16_ShortcutStep /\ attemptCompletes]_vars

\* a file made clean by the shortcut (hash set, no MIME type detected) beside
\* its clean twin
C16_Witness ==
  \E f \in DOMAIN files :
    /\ files[f].status = "clean"
    /\ files[f].sha256 = sha256Of("pngBytes")
    /\ files[f].detected_mime = NULL
    /\ cleanTwin(f, files[f].sha256)

C17_AttemptsBounded ==
  \A j \in DOMAIN jobs :
    /\ jobs[j].attemptsMade <= 3
    /\ jobs[j].state \in {"waiting", "active"} => jobs[j].attemptsMade < 3
    /\ jobs[j].state = "failed" => jobs[j].attemptsMade = 3

C17_AttemptStep ==
  \A w \in WorkerIds :
    LET j == workers[w].job IN
    /\ (workers[w].pc = "rethrow" /\ workers'[w].pc = "idle" /\ j \in DOMAIN jobs') =>
         /\ jobs'[j].attemptsMade = jobs[j].attemptsMade + 1
         /\ jobs'[j].state = IF jobs'[j].attemptsMade < 3 THEN "waiting" ELSE "failed"
    /\ (workers[w].pc = "returned" /\ workers'[w].pc = "idle") =>
         j \notin DOMAIN jobs'
    /\ (workers[w].pc = "idle" /\ workers'[w].pc # "idle") =>
         /\ jobs[workers'[w].job].state = "waiting"
         /\ jobs[workers'[w].job].attemptsMade < 3

\* C17: the handler is invoked for a job at most 3 times: a job is taken only
\* while fewer than 3 attempts have failed, a failed attempt puts it back to
\* waiting only while fewer than 3 attempts have been made, and a successful
\* attempt removes it from the queue.
C17_AtMostThreeAttempts == []C17_AttemptsBounded /\ [][C17_AttemptStep]_vars

\* a job that failed three times and is not waiting any more
C17_Witness ==
  \E j \in DOMAIN jobs :
    jobs[j].state = "failed" /\ jobs[j].attemptsMade = 3 /\ jobs[j].finishedOn > 0
      /\ \A w \in WorkerIds : workers[w].pc = "idle"

\* no job of file f is waiting for a worker or being processed
noJobPending(f) ==
  \A j \in DOMAIN jobs : jobs[j].fileId = f => jobs[j].state = "failed"

C19_ThirdFailureStep ==
  \A w \in WorkerIds :
    LET j == workers[w].job IN
    (/\ workers[w].pc = "rethrow"
     /\ workers'[w].pc = "idle"
     /\ jobs[j].attemptsMade = 2) =>
      /\ j \in DOMAIN jobs'
      /\ jobs'[j].state = "failed"
      /\ jobs'[j].attemptsMade = 3
      /\ isProcessingError(files'[jobs[j].fileId])
      /\ files'[jobs[j].fileId].reason[2] = workers[w].err

C19_StaysRejected ==
  \A f \in DOMAIN files :
    (isProcessingError(files[f]) /\ noJobPending(f)) => files'[f] = files[f]

C19_ExhaustedIsRejected ==
  \A j \in DOMAIN jobs :
    jobs[j].state = "failed" =>
      jobs[j].attemptsMade = 3 /\ isProcessingError(files[jobs[j].fileId])

\* C19: the failure of the third attempt of a job leaves the job failed
\* after exactly 3 attempts and the file rejected with a reason that begins
\* "Processing error:" and carries the error, here the failed download; a
\* file so rejected whose job is exhausted is not changed by the pipeline
\* again.
C19_RejectedAfterThreeFailures ==
  /\ [][C19_ThirdFailureStep /\ C19_StaysRejected]_vars
  /\ []C19_ExhaustedIsRejected

\* three failed attempts, the last one at the download, and all workers idle
C19_Witness ==
  \E j \in DOMAIN jobs :
    /\ jobs[j].state = "failed"
    /\ jobs[j].attemptsMade = 3
    /\ files[jobs[j].fileId].status = "rejected"
    /\ files[jobs[j].fileId].reason =
         <<"Processing error: ", "Failed to download file from storage">>
    /\ \A w \in WorkerIds : workers[w].pc = "idle"
    /\ \A k \in DOMAIN jobs : jobs[k].state = "failed"

\* the set of the names in a signature list
namesIn(list) == {list[i] : i \in 1 .. Len(list)}

C20_InfectedStep ==
  \A w \in WorkerIds :
    LET scanResult == scanBuffer(workers[w].buf)
        f == fileOf(w)
    IN
    (/\ workers[w].pc \in {"scan", "commit"}
     /\ workers'[w].pc \notin {workers[w].pc, "catch"}
     /\ scanResult.isInfected) =>
      /\ thumbnails' = thumbnails
      /\ workers[w].pc = "commit" =>
           /\ files'[f].status = "quarantined"
           /\ Len(files'[f].reason) = 2
           /\ files'[f].reason[1] = "Virus detected: "
           /\ namesIn(scanResult.viruses) \subseteq namesIn(files'[f].reason[2])

\* C20: an attempt on bytes the scanner reports infected commits status
\* quarantined with the reason "Virus detected: " followed by a list holding
\* every reported signature, whatever the detected MIME type, and stores no
\* derivative.
C20_InfectedQuarantined == [][C20_InfectedStep]_vars

\* an infected executable, on the MIME denylist too, quarantined for the
\* two signatures reported
C20_Witness ==
  \E f \in DOMAIN files :
    /\ files[f].status = "quarantined"
    /\ files[f].detected_mime \in dangerousFileTypes
    /\ files[f].reason =
         <<"Virus detected: ", <<"Eicar-Test-Signature", "Win.Test.EICAR_HDB-1">>>>
    /\ f \notin thumbnails

\* the denylist, as the claim has it from the configuration
C21_Denylist ==
  {"application/x-msdownload", "application/x-executable",
   "application/x-dosexec", "application/x-msdos-program",
   "application/x-msdos-windows", "application/bat", "application/x-bat",
   "application/javascript", "text/javascript", "application/html",
   "text/html", "application/wasm", "application/jar",
   "application/java-archive", "image/svg+xml"}

\* C21: an attempt on bytes the scanner reports clean commits the detected
\* MIME type and, for each type on the denylist (application/x-msdownload,
\* image/svg+xml and the thirteen others), status quarantined with a reason
\* that names the dangerous type; for a type not on the denylist it commits
\* clean, without a reason.
C21_DenylistQuarantined ==
  [][\A w \in WorkerIds :
       LET mime == detectMime(workers[w].buf, workers[w].name)
           f == fileOf(w)
       IN
       (/\ workers[w].pc = "commit"
        /\ workers'[w].pc = "audit"
        /\ ~scanBuffer(workers[w].buf).isInfected) =>
         /\ files'[f].detected_mime = mime
         /\ mime \in C21_Denylist =>
              /\ files'[f].status = "quarantined"
              /\ files'[f].reason =
                   <<"Potentially dangerous file type detected: ", mime>>
         /\ mime \notin C21_Denylist =>
              files'[f].status = "clean" /\ files'[f].reason = NoReason]_vars

\* a file quarantined for the type found from its name, image/svg+xml,
\* beside an image found clean
C21_Witness ==
  \E f, g \in DOMAIN files :
    /\ files[f].status = "quarantined"
    /\ files[f].detected_mime = "image/svg+xml"
    /\ files[f].reason =
         <<"Potentially dangerous file type detected: ", "image/svg+xml">>
    /\ files[g].status = "clean"
    /\ files[g].detected_mime = "image/png"

\* C22: the administrative override changes the status of a quarantined file
\* only: applied to a file that is pending, scanning, rejected or clean it
\* leaves the status as it is.
C22_OverrideOnlyQuarantined ==
  (ret.op = "allow" /\ ret.was.status # "quarantined") =>
    ret.is.status = ret.was.status

C23_ResultAndEffectKept ==
  ret.audit = "failed" =>
    /\ ret.op = "initiate" =>
         /\ ret.result = "ok"
         /\ \E f \in DOMAIN ret.is.files \ DOMAIN ret.was.files :
              ret.is.files[f].status = "pending"
    /\ ret.op = "complete" =>
         ret.result = "ok" /\ ret.is.status = "scanning" /\ ret.is.jobs > 0
    /\ ret.op = "createShare" =>
         ret.result = "ok" /\ ret.is.shares = ret.was.shares + 1
    /\ ret.op = "resolve" =>
         /\ ret.result = "file"
         /\ ret.is.state = IF shares[ret.id].one_time_use THEN "consumed" ELSE "valid"
    /\ ret.op = "download" => ret.result = "url"
    /\ ret.op = "processFile" =>
         /\ ret.result = "returned"
         /\ ret.is = ret.was

C23_QuarantineAuditStep ==
  \A w \in WorkerIds :
    (workers[w].pc = "scan" /\ workers'[w].pc = "catch") =>
      workers'[w].err \in ScannerErrors

\* C23: an operation whose audit insert fails returns its normal result and
\* keeps its effect: initiate its File row, complete the status flip and the
\* job, createShare its Share row, a resolution the consumption of a one-time
\* share, download its URL; a processing attempt returns with the row as its
\* commit left it and its job completes; the audit of a quarantine does not
\* end the attempt.
C23_AuditFailureSwallowed ==
  []C23_ResultAndEffectKept /\ [][C23_QuarantineAuditStep /\ attemptCompletes]_vars

\* a processing attempt whose audit insert failed committed clean and returned
C23_Witness ==
  /\ ret.op = "processFile"
  /\ ret.audit = "failed"
  /\ ret.result = "returned"
  /\ ret.is.status = "clean"
  /\ ret.is.jobs = 1

\* two overlapping admissions both passed the storage check: the sizes of
\* alice's files sum to more than her storage quota
C24_RaceReached ==
  /\ ret.op = "initiate"
  /\ ret.result = "ok"
  /\ Cardinality(DOMAIN files) = 2
  /\ used(files, "alice") > users["alice"].storage_quota_bytes

\* C24: when the initiate calls of a user do not overlap, the sizes of the
\* user's files that are not rejected sum to at most the storage quota at
\* the moment an upload is admitted.
C24_SequentialWithinQuota ==
  (ret.op = "initiate" /\ ret.result = "ok") =>
    used(ret.is.files, ret.user) <= users[ret.user].storage_quota_bytes

\* C25: an attempt that ends because the File row does not exist is the last
\* attempt of its job: the job is not put back to wait for another attempt.
C25_MissingRowNoRetry ==
  [][\A w \in WorkerIds :
       LET j == workers[w].job IN
       (/\ workers[w].pc = "rethrow"
        /\ workers[w].err = "File not found"
        /\ workers'[w].pc = "idle")
       => (j \in DOMAIN jobs' => jobs'[j].state = "failed")]_vars

C26_CleanCommitStep ==
  \A w \in WorkerIds :
    LET f == fileOf(w) IN
    (/\ workers[w].pc = "commit"
     /\ workers'[w].pc = "audit"
     /\ files'[f].status = "clean") =>
      /\ workers[w].scanResult = scanBuffer(workers[w].buf)
      /\ ~workers[w].scanResult.isInfected
      /\ detectMime(workers[w].buf, workers[w].name) \notin dangerousFileTypes
      /\ files'[f].detected_mime = detectMime(workers[w].buf, workers[w].name)

C26_AttemptOrder ==
  \A w \in WorkerIds :
    /\ workers'[w].buf # workers[w].buf =>
         \/ workers'[w].pc = "idle" /\ workers'[w].buf = NULL
         \/ /\ workers[w].pc = "download"
            /\ workers'[w].job = workers[w].job
            /\ workers'[w].buf = blob[fileOf(w)]
    /\ (workers'[w].pc = "commit" /\ workers[w].pc # "commit") =>
         workers[w].pc = "scan" /\ workers'[w].job = workers[w].job
    /\ (workers[w].pc = "catch" /\ workers'[w].pc # "catch") =>
         workers'[w].pc = "rethrow" /\ files'[fileOf(w)].status = "rejected"
    /\ (workers[w].pc = "rethrow" /\ workers'[w].pc # "rethrow") =>
         workers'[w].pc = "idle" /\ files' = files

C26_CleanOnlyByCommit ==
  \A f \in DOMAIN files :
    (files[f].status # "clean" /\ files'[f].status = "clean") =>
      \E w \in WorkerIds :
        /\ workers[w].pc \in {"commit", "dedupCommit"}
        /\ fileOf(w) = f
        /\ workers'[w].pc \in {"audit", "dedupAudit"}

\* C26: an attempt that commits clean without the shortcut holds the verdict
\* of the scanner on the bytes it downloaded, got in the scan step of the
\* same attempt (the bytes are those the store held at the download, also
\* when the client replaces the object afterwards); the verdict is not
\* infected and the detected MIME type is not on the denylist.  An attempt that ends in the catch block leaves the
\* file rejected, and a file becomes clean by no other step of the pool.
C26_CleanOnlyAfterScan ==
  [][C26_CleanCommitStep /\ C26_AttemptOrder /\ C26_CleanOnlyByCommit]_vars

\* an image scanned in this run, found clean, with its thumbnail stored,
\* beside an infected file that was quarantined
C26_Witness ==
  \E f \in thumbnails, g \in DOMAIN files :
    /\ files[f].status = "clean"
    /\ files[f].detected_mime = "image/png"
    /\ files[f].sha256 = sha256Of("pngBytes")
    /\ files[g].status = "quarantined"
    /\ \A w \in WorkerIds : workers[w].pc = "idle"

C27_ScanStep ==
  \A w \in WorkerIds :
    (workers[w].pc = "scan" /\ workers'[w].pc # "scan") =>
      \/ workers'[w].pc = "commit"
      \/ /\ workers'[w].pc = "catch"
         /\ workers'[w].err \in ScannerErrors

C27_CommitStep ==
  \A w \in WorkerIds :
    LET f == fileOf(w)
        mime == detectMime(workers[w].buf, workers[w].name)
    IN
    (/\ workers[w].pc = "commit"
     /\ workers'[w].pc # "commit"
     /\ wantsThumbnail(classify(scanBuffer(workers[w].buf), mime).status, mime)
     /\ f \notin thumbnails) =>
      /\ workers'[w].pc = "audit"
      /\ files'[f].status = "clean"
      /\ files'[f].sha256 = sha256Of(workers[w].buf)
      /\ files'[f].detected_mime = mime

\* C27: the scan step of an attempt ends in the catch block only for a
\* failure of the scanner; an attempt on a clean image whose thumbnail was
\* not generated or not stored commits clean with the hash and the detected
\* MIME type, returns, and its job completes instead of being retried.
C27_ThumbnailFailureIgnored ==
  [][C27_ScanStep /\ C27_CommitStep /\ attemptCompletes]_vars

\* a clean image processed in this run without a thumbnail; its job is gone
C27_Witness ==
  \E f \in DOMAIN files \ thumbnails :
    /\ files[f].status = "clean"
    /\ files[f].detected_mime = "image/png"
    /\ files[f].sha256 = sha256Of("pngBytes")
    /\ \A j \in DOMAIN jobs : jobs[j].fileId # f
    /\ \A w \in WorkerIds : workers[w].pc = "idle"

\* C28: an attempt writes the File row in its last step only (the commit,
\* the shortcut's commit or the catch block): every earlier step of the
\* attempt leaves the row as it found it.
C28_SingleWrite ==
  [][\A w \in WorkerIds :
       (/\ workers[w].pc \in {"start", "select", "download", "dedup", "scan"}
        /\ workers'[w] # workers[w]
        /\ fileOf(w) \in DOMAIN files)
       => files'[fileOf(w)] = files[fileOf(w)]]_vars

\* C29: every processing attempt ends: a worker slot that holds an attempt
\* is free again at some later time, even when the blob store stops
\* answering.
C29_AttemptTerminates ==
  \A w \in WorkerIds : (workers[w].pc # "idle") ~> (workers[w].pc = "idle")

C30_CommitStep ==
  \A w \in WorkerIds :
    LET f == fileOf(w)
        mime == detectMime(workers[w].buf, workers[w].name)
        v == classify(scanBuffer(workers[w].buf), mime)
    IN
    (workers[w].pc = "commit" /\ workers'[w].pc = "audit") =>
      /\ files'[f].detected_mime = mime
      /\ files'[f].status = v.status
      /\ files'[f].reason = v.reason

\* two uploads of the same bytes under the same name, both classified
sameUpload(f, g) ==
  /\ blob[f] = blob[g]
  /\ files[f].original_name = files[g].original_name
  /\ files[f].detected_mime # NULL
  /\ files[g].detected_mime # NULL

C30_SameResult ==
  \A f, g \in DOMAIN files :
    sameUpload(f, g) =>
      /\ files[f].detected_mime = files[g].detected_mime
      /\ files[f].status = files[g].status
      /\ files[f].reason = files[g].reason

\* C30: what an attempt commits is determined by the bytes, the file name
\* and the scanner's verdict, not by the declared contentType: two uploads
\* of the same bytes under the same name get the same detected MIME type,
\* status and reason whatever contentType each was declared with.
C30_DeclaredTypeIgnored == [][C30_CommitStep]_vars /\ []C30_SameResult

\* the same executable declared as an image and as an executable:
\* both quarantined for the type found in the bytes
C30_Witness ==
  \E f, g \in DOMAIN files :
    /\ sameUpload(f, g)
    /\ objectType[f] = "image/png"
    /\ objectType[g] = "application/x-msdownload"
    /\ files[f].detected_mime = "application/x-msdownload"
    /\ files[f].status = "quarantined"
    /\ files[g].status = "quarantined"
    /\ files[f].reason = files[g].reason

\* C18: a job whose attempts are exhausted stays in the queue as it is: it is
\* neither delivered again nor discarded, whatever fails afterwards.
C18_DeadLetterKept ==
  [][\A j \in DOMAIN jobs :
       jobs[j].state = "failed" => (j \in DOMAIN jobs' /\ jobs'[j] = jobs[j])]_vars

\* C31: completions of one file, overlapping or one after the other, leave
\* at most one processing job for it: when a completion returns successfully
\* the queue holds exactly one job of the file.
C31_OneJobPerFile ==
  (ret.op = "complete" /\ ret.result = "ok") => ret.is.jobs = 1

\* C32: no two processing attempts for the same file are in flight at the
\* same time: two worker slots that hold an attempt hold attempts on
\* different files.
C32_OneAttemptPerFile ==
  \A v, w \in WorkerIds :
    (v # w /\ workers[v].pc # "idle" /\ workers[w].pc # "idle") =>
      fileOf(v) # fileOf(w)

\* some file with content hash sha was examined by the scanner and found
\* clean with a MIME type off the denylist: its row holds the hash and the
\* detected MIME type of a commit, and the verdict on the bytes with that
\* hash is clean
scannedClean(sha) ==
  \E d \in DOMAIN files, c \in ScanContents :
    /\ files[d].sha256 = sha
    /\ sha256Of(c) = sha
    /\ files[d].detected_mime # NULL
    /\ classify(scanBuffer(c), files[d].detected_mime).status = "clean"

\* C33: a file that the deduplication shortcut commits clean has the content
\* hash of some file that the scanner examined and found clean with a MIME
\* type off the denylist.
C33_DedupOnlyScannedClean ==
  [][\A w \in WorkerIds :
       (/\ workers[w].pc = "dedupCommit"
        /\ workers'[w].pc = "dedupAudit"
        /\ fileOf(w) \in DOMAIN files)
       => scannedClean(sha256Of(workers[w].buf))]_vars

\* C34: a file whose status is clean has no reason: the reason written by
\* an earlier failed attempt or an earlier classification is gone once the
\* file is committed clean.
C34_CleanHasNoReason ==
  \A f \in DOMAIN files : files[f].status = "clean" => files[f].reason = NoReason

C35_DerivativeStep ==
  thumbnails' # thumbnails =>
    \E w \in WorkerIds :
      LET mime == detectMime(workers[w].buf, workers[w].name) IN
      /\ workers[w].pc = "scan"
      /\ workers'[w].pc = "commit"
      /\ thumbnails' = thumbnails \cup {fileOf(w)}
      /\ classify(scanBuffer(workers[w].buf), mime).status = "clean"
      /\ isImageMime(mime)
      /\ mime # "image/svg+xml"

C35_DerivativeOfCleanImage ==
  poolAtRest =>
    \A f \in thumbnails :
      /\ files[f].status = "clean"
      /\ isImageMime(files[f].detected_mime)
      /\ files[f].detected_mime # "image/svg+xml"

\* C35: a derivative is stored only by the scan step of an attempt that
\* classifies the file clean with a detected MIME type that is an image type
\* other than image/svg+xml: not by an attempt that classifies quarantined,
\* not by the shortcut, not for an SVG document; once the pool is at rest
\* every file with a derivative is a clean image that is not an SVG.
C35_DerivativeOnlyCleanImage ==
  [][C35_DerivativeStep]_vars /\ []C35_DerivativeOfCleanImage

\* an image found clean with its derivative stored, beside an SVG document
\* quarantined without one
C35_Witness ==
  \E f \in thumbnails, g \in DOMAIN files \ thumbnails :
    /\ files[f].status = "clean"
    /\ files[f].detected_mime = "image/png"
    /\ files[g].status = "quarantined"
    /\ files[g].detected_mime = "image/svg+xml"
    /\ poolAtRest

\* C36: a direct generateFileDownloadUrl call by a user who does not own the
\* file issues no URL, whether or not a share for the file exists: a user
\* other than the owner gets a URL through the resolution of a share token
\* only.
C36_NoUrlForNonOwner ==
  (ret.op = "download" /\ ret.id \in DOMAIN files
     /\ files[ret.id].owner_id # ret.user)
  => ret.result # "url"

C37_FileStep ==
  \A r \in ReqIds :
    /\ (resolve[r].pc = "file" /\ resolve'[r].pc # "file") =>
         IF statusOf(resolve[r].share.file_id) = "clean"
           THEN \/ resolve'[r].pc = "update" /\ resolve[r].share.one_time_use
                \/ /\ resolve'[r].pc = "idle"
                   /\ ret'.op = "resolve"
                   /\ ret'.id = resolve[r].token
                   /\ ret'.result = "file"
           ELSE /\ resolve'[r].pc = "idle"
                /\ ret'.op = "resolve"
                /\ ret'.id = resolve[r].token
                /\ ret'.result = "NotFound"
    /\ (resolve'[r].pc = "update" /\ resolve[r].pc # "update") =>
         resolve[r].pc = "file"

C37_ShareFrame ==
  \A t \in DOMAIN shares :
    (t \notin DOMAIN shares' \/ shares'[t] # shares[t]) =>
      /\ shares' = [shares EXCEPT ![t].used_at = now]
      /\ shares[t].one_time_use
      /\ ret'.op = "resolve"
      /\ ret'.id = t
      /\ ret'.result = "file"
      /\ \E r \in ReqIds :
           /\ resolve[r].pc = "update"
           /\ resolve[r].token = t
           /\ resolve'[r].pc = "idle"

C37_FailedKeepsShare ==
  (ret.op = "resolve" /\ ret.result = "NotFound") => ret.is = ret.was

\* C37: a resolution goes past its file query only when the file is clean
\* at that moment, and fails NotFound otherwise; a share row changes only in
\* the step by which a resolution of a one-time token returns the file, and
\* then only in used_at: a resolution that fails leaves the share as it was.
C37_FailedResolveNoEffect ==
  [][C37_FileStep /\ C37_ShareFrame]_vars /\ []C37_FailedKeepsShare

\* the resolution of an unused one-time token failed because the file was
\* scanning again; the token is still unused
C37_Witness ==
  /\ ret.op = "resolve"
  /\ ret.result = "NotFound"
  /\ ret.was.state = "valid"
  /\ ret.was.file = "scanning"
  /\ ret.id \in DOMAIN shares
  /\ shares[ret.id].one_time_use
  /\ shares[ret.id].used_at = 0

\* a job of file f is waiting for a worker or being processed
jobUnfinished(f) ==
  \E j \in DOMAIN jobs : jobs[j].fileId = f /\ jobs[j].state # "failed"

C38_ScanningHasJob ==
  \A f \in DOMAIN files :
    files[f].status = "scanning" =>
      \/ jobUnfinished(f)
      \/ \E r \in ReqIds : complete[r].pc # "idle" /\ complete[r].fileId = f

\* C38: with the server and the workers scheduled fairly and every store and
\* scanner call answered, a file that is scanning comes to be clean,
\* quarantined or rejected; and a file is scanning only while a job of it is
\* not finished: once its jobs have completed or used up their attempts the
\* file is not scanning.
C38_ScanningEnds ==
  /\ []C38_ScanningHasJob
  /\ \A f \in FileIds :
       (statusOf(f) = "scanning") ~> (statusOf(f) \in Terminal /\ ~jobUnfinished(f))

\* a file completed twice and processed twice: both jobs are gone, the file
\* is quarantined and the pool is at rest
C38_Witness ==
  \E f \in DOMAIN files :
    /\ files[f].status = "quarantined"
    /\ fileSeq = 1
    /\ jobSeq = 2
    /\ ~jobUnfinished(f)
    /\ poolAtRest
    /\ noCallInFlight

====
